---------------------------- MODULE Spec2Model ----------------------------
(***************************************************************************)
(* A model of the voxel field construction of icesl2voxel:                 *)
(*   - voxelize_gcode   (icesl2voxel/src/voxelizer.rs)                     *)
(*   - voxelize_mesh    (icesl2voxel/src/voxelizer.rs)                     *)
(*   - ParamField::resample (icesl2voxel/src/param_field.rs)               *)
(* Each routine has its own specification (SpecGcode, SpecMesh,            *)
(* SpecResample); the variables of the other routines stay idle.           *)
(*                                                                         *)
(* Lengths are integers in model units (the nozzle diameter is an even     *)
(* number of units, so that nozzle_diameter / 2 is exact).  Voxel          *)
(* coordinates, which the code holds as f32, are kept as exact rationals   *)
(* by cross-multiplication; the IEEE special values that the code reaches  *)
(* (f32::MAX, infinities, NaN) are handled case by case where they arise.  *)
(***************************************************************************)
EXTENDS Integers, Sequences, FiniteSets, TLC

VARIABLES
    \* ---- voxelize_gcode: arguments
    samples,            \* the `samples` argument
    \* ---- voxelize_gcode: parse loop (voxelizer.rs 47-156)
    gpc,                \* "parse" | "raster" | "done" | "idle"
    parts_read,         \* number of G-code parts iterated so far
    current_layer,      \* number of `; </layer>` lines consumed
    state_layer,        \* current_state.layer : Option<usize>
    current_pos,        \* <<current_x, current_y, current_z>> : Option<f32> each
    given_pos,          \* history: per axis, the value last given by a G0 or G1
    nozzle_diameter,    \* global_state.nozzle_diameter
    segments,           \* Vec<Segment>
    trace_layers,       \* layers delimited by the marker lines of the whole file
    \* ---- voxelize_gcode: rasterization (voxelizer.rs 158-298)
    printer_bbox,       \* the dilated bounding box
    segarray,           \* per-layer segment lists
    seg_done,           \* per layer worker: segments already rasterized
    vx,                 \* the voxel grid, [<<k, j, i>> -> u8]
    writers,            \* per voxel: the layer workers that wrote it
    unclamped,          \* some footprint range reached outside the grid
    gcode_result,       \* "pending" | "ok" | one of the panics
    out_field,          \* the returned ParamField: [box, shape, data]
    \* ---- voxelize_mesh (voxelizer.rs 478-710)
    mpc,                \* "setup" | "render_z" | "render_y" | "render_x" |
                        \* "classify" | "return" | "done" | "idle"
    printed_field,      \* the target field: [box, shape]
    mesh_bbox,          \* the mesh's own bounding box
    zdepth,             \* (zplus, zminus): [plus, minus], each [<<row, col>> -> depth]
    ydepth,             \* (yplus, yminus)
    xdepth,             \* (xplus, xminus)
    renders,            \* number of depth draws done so far
    vis,                \* the visibility grid, [<<k, j, i>> -> u8]
    mesh_result,        \* "pending" | "ok" | "error"
    mesh_field,         \* the returned ParamField: [box, shape, data]
    \* ---- ParamField::resample (param_field.rs 297-404)
    rpc,                \* "call" | "done" | "idle"
    self_field,         \* the source field: [storage, box, shape, data]
    mask_field,         \* the mask: [storage, box, shape, data]
    reads,              \* per destination voxel: the source indices read, in order
    resample_result,    \* "pending" | "ok" | one of the panics
    resampled,          \* the returned ParamField: [storage, box, shape, data]
    \* ---- compute_output_stats (stats.rs 17-222)
    spc,                \* "call" | "zip" | "dirs" | "ray" | "return" | "done" | "idle"
    stat_vx,            \* voxelized_field: [box, shape, data]
    stat_im,            \* input_mask: [box, shape, data]
    kernel_size_mm,     \* the `kernel_size_mm` argument
    dir_samples,        \* the `dir_samples` argument
    dir_field,          \* [<<k, j, i>> -> direction (x, y, z)]
    dir_length_field,   \* [<<k, j, i>> -> length]
    dir_change_field,   \* [<<k, j, i>> -> length]
    zipped,             \* the voxels par_azip! is done with
    cur_voxel,          \* the (k, j, i) find_max_direction is working on
    sample,             \* directions already traced for cur_voxel
    max_dir,            \* find_max_direction's max_dir
    max_val,            \* find_max_direction's max_val
    last_change,        \* find_max_direction's last_change
    current_point,      \* raytrace's current_point, as the voxel it is the centre of
    out,                \* raytrace's stop flag
    ray_iters,          \* iterations of `while !out` done by the running raytrace
    ray_start,          \* the (k, j, i) the running raytrace was called with
    ray_dir,            \* the direction the running raytrace was called with
    stopped_at,         \* the voxel at which the last ray stopped
    dists,              \* the rays traced for cur_voxel so far: [d, dir, start]
    steps,              \* the shared step counter
    mon_pc,             \* the progress thread: "none" | "poll" | "finished"
    mon_last,           \* the progress thread's `last`
    stats_result,       \* "pending" | "ok"
    \* ---- ParamBag (param_bag.rs)
    bpc,                \* "parse" | "pipeline" | "aborted" | "done" | "idle"
    param_fields,       \* [key -> [storage, depth]]
    param_arrays,       \* [key -> [kind, len]]
    field_names,        \* parse's field_names
    bag_events,         \* XML elements read so far
    bag_ops,            \* calls made after the parse
    bag_call,           \* the last call: [op, name, result]
    \* ---- compute_output_stats: the separable blur (stats.rs 224-344)
    blur_pc,            \* "call" | "pass" | "final" | "done" | "idle"
    blur_pass,          \* the running pass: 1 (Z), 2 (Y), 3 (X)
    blur_written,       \* the voxels the running pass has written
    mean_field_a,       \* [<<k, j, i>> -> [nan, v]], v in units of 1 / MeanDen
    mean_field_b,       \* [<<k, j, i>> -> [nan, v]]
    mean_field_confidence_f, \* [<<k, j, i>> -> product of the passes' counts]
    pass_log,           \* history: [axis, src, dst] of every finished pass
    mean_field,         \* the returned mean, [<<k, j, i>> -> u8]
    mean_field_confidence    \* the returned confidence, [<<k, j, i>> -> u8]

gvars == <<samples, gpc, parts_read, current_layer,
           state_layer, current_pos, given_pos, nozzle_diameter, segments, trace_layers,
           printer_bbox, segarray, seg_done, vx, writers, unclamped,
           gcode_result, out_field>>

mvars == <<mpc, printed_field, mesh_bbox, zdepth, ydepth, xdepth, renders,
           vis, mesh_result, mesh_field>>

rvars == <<rpc, self_field, mask_field, reads, resample_result, resampled>>

stat_args == <<stat_vx, stat_im, kernel_size_mm, dir_samples>>
stat_outs == <<dir_field, dir_length_field, dir_change_field>>
fmd_vars == <<cur_voxel, sample, max_dir, max_val, last_change, dists>>
ray_vars == <<ray_start, ray_dir, current_point, out, ray_iters, stopped_at>>
mon_vars == <<steps, mon_pc, mon_last>>
svars == <<spc, stat_args, stat_outs, zipped, fmd_vars, ray_vars, mon_vars,
           stats_result>>

bvars == <<bpc, param_fields, param_arrays, field_names, bag_events, bag_ops, bag_call>>

kvars == <<blur_pc, blur_pass, blur_written, mean_field_a, mean_field_b,
           mean_field_confidence_f, pass_log, mean_field, mean_field_confidence>>

vars == <<gvars, mvars, rvars, svars, bvars, kvars>>

-----------------------------------------------------------------------------
(* Bounds of the model                                                     *)

MaxParts == 4       \* G-code commands in a trace
MaxLayers == 2      \* `; </layer>` lines in a trace
MaxSegs == 2        \* extruding moves in a trace

-----------------------------------------------------------------------------
(* Option<T>, f32 and u8 helpers                                           *)

None == <<>>
Some(v) == <<v>>
IsSome(o) == o # None
Unwrap(o) == o[1]
UnwrapOr(o, d) == IF o = None THEN d ELSE o[1]

MinOf(a, b) == IF a < b THEN a ELSE b
MaxOf(a, b) == IF a > b THEN a ELSE b

\* Floor and ceiling of the rational n / d, d > 0.
FloorDiv(n, d) == n \div d
CeilDiv(n, d) == -((-n) \div d)

\* f32::MAX, the fold's start value; f32::MIN is its negation.
F32Max == 1000000

\* a + b in f32 where a may be +-f32::MAX and |b| is far below its ulp.
F32Add(a, b) == IF a >= F32Max \/ a <= -F32Max THEN a ELSE a + b

U8Max == 255

-----------------------------------------------------------------------------
(* The G-code text.  A raw line is [text, key, value]: `key` is capture 1  *)
(* of PARAMETER_REGEX ("" when the line does not match), `value` is        *)
(* capture 2 parsed as a number.                                           *)

LayerOpen == [text |-> "; <layer>", key |-> "", value |-> 0]
LayerClose == [text |-> "; </layer>", key |-> "", value |-> 0]
NozzleParam == [text |-> "; nozzle_diameter_mm_0 : 2", key |-> "nozzle_diameter_mm_0", value |-> 2]
OtherParam == [text |-> "; z_layer_height_first_layer_mm : 2", key |-> "z_layer_height_first_layer_mm", value |-> 2]

\* The layer markers of a trace alternate: `; <layer>` outside a layer,
\* `; </layer>` inside one.  inside: the trace is inside a layer before `ls`.
RECURSIVE WellFormed(_, _)
WellFormed(ls, inside) ==
    IF ls = <<>> THEN TRUE
    ELSE IF Head(ls) = LayerOpen THEN ~inside /\ WellFormed(Tail(ls), TRUE)
    ELSE IF Head(ls) = LayerClose THEN inside /\ WellFormed(Tail(ls), FALSE)
    ELSE WellFormed(Tail(ls), inside)

RECURSIVE CountLines(_, _)
CountLines(ls, l) ==
    IF ls = <<>> THEN 0
    ELSE (IF Head(ls) = l THEN 1 ELSE 0) + CountLines(Tail(ls), l)

\* The runs of comment lines that may stand between two commands.
GapLines ==
    { <<>>, <<NozzleParam>>, <<OtherParam>>, <<LayerOpen>>, <<LayerClose>>,
      <<LayerClose, LayerOpen>>, <<LayerOpen, LayerClose>> }

Gaps(inside) == {ls \in GapLines : WellFormed(ls, inside)}

\* A command is [mnemonic, major, x, y, z, e]: the arguments are Option<f32>.
G1(x, y, z, e) == [mnemonic |-> "G", major |-> 1, x |-> x, y |-> y, z |-> z, e |-> e]
G0(x, y, z) == [mnemonic |-> "G", major |-> 0, x |-> x, y |-> y, z |-> z, e |-> None]
M106 == [mnemonic |-> "M", major |-> 106, x |-> None, y |-> None, z |-> None, e |-> None]

Travels ==
    { G1(Some(0), Some(0), Some(0), None),
      G1(None, None, Some(1), None),
      G0(Some(1), Some(1), None),
      M106 }

Extrusions ==
    { G1(Some(2), None, None, Some(1)),
      G1(Some(0), Some(2), None, Some(1)),
      G1(Some(1), None, Some(1), Some(1)) }

Commands == Travels \cup Extrusions

-----------------------------------------------------------------------------
(* voxelize_gcode: the parse loop                                          *)

\* The body of `while gcode_current_line != current_state.line` for one raw
\* line: st is [layer, current_layer, nozzle].
ConsumeLine(st, line) ==
    IF line.text = "; <layer>"
    THEN [st EXCEPT !.layer = Some(st.current_layer)]
    ELSE IF line.text = "; </layer>"
    THEN [st EXCEPT !.layer = None, !.current_layer = st.current_layer + 1]
    ELSE IF line.key = "nozzle_diameter_mm_0"
    THEN [st EXCEPT !.nozzle = line.value]
    ELSE st

RECURSIVE ConsumeLines(_, _)
ConsumeLines(st, ls) ==
    IF ls = <<>> THEN st
    ELSE ConsumeLines(ConsumeLine(st, Head(ls)), Tail(ls))

\* The segment pushed by a G1 part, if any (voxelizer.rs 112-134).
PushedSegment(pos, cmd, layer) ==
    IF /\ IsSome(pos[1]) /\ IsSome(pos[2]) /\ IsSome(pos[3])
       /\ IsSome(cmd.e) /\ Unwrap(cmd.e) > 0
    THEN << [ start |-> <<Unwrap(pos[1]), Unwrap(pos[2]), Unwrap(pos[3])>>,
              end |-> << UnwrapOr(cmd.x, Unwrap(pos[1])),
                         UnwrapOr(cmd.y, Unwrap(pos[2])),
                         UnwrapOr(cmd.z, Unwrap(pos[3])) >>,
              layer |-> layer ] >>
    ELSE <<>>

\* current_x/y/z after a G1 part (voxelizer.rs 136-138).
MovedPos(pos, cmd) ==
    << IF IsSome(cmd.x) THEN cmd.x ELSE pos[1],
       IF IsSome(cmd.y) THEN cmd.y ELSE pos[2],
       IF IsSome(cmd.z) THEN cmd.z ELSE pos[3] >>

\* Whether `match part.mnemonic()` reaches the motion arm: General, major 1.
IsMotion(cmd) == cmd.mnemonic = "G" /\ cmd.major = 1

\* One iteration of `for part in gcode`: the part `cmd` stands after the raw
\* lines `gap`.  The inner while loop consumes the raw lines up to the line
\* of the part, that is `gap` and the part's own line (no marker, no
\* parameter: consuming it changes nothing), so gcode_current_line always
\* ends equal to the part's line and is not kept as a variable.
ParsePart(gap, cmd) ==
    /\ gpc = "parse"
    /\ parts_read < MaxParts
    /\ LET st0 == [layer |-> state_layer, current_layer |-> current_layer,
                   nozzle |-> nozzle_diameter]
           st == ConsumeLines(st0, gap)
           pushed == IF IsMotion(cmd)
                     THEN PushedSegment(current_pos, cmd, st.layer)
                     ELSE <<>>
       IN  /\ st.current_layer <= MaxLayers
           /\ Len(segments) + Len(pushed) <= MaxSegs
           /\ state_layer' = st.layer
           /\ current_layer' = st.current_layer
           /\ trace_layers' = trace_layers + CountLines(gap, LayerClose)
           /\ nozzle_diameter' = st.nozzle
           /\ segments' = segments \o pushed
           /\ current_pos' = IF IsMotion(cmd) THEN MovedPos(current_pos, cmd)
                             ELSE current_pos
           /\ given_pos' = IF cmd.mnemonic = "G" /\ cmd.major \in {0, 1}
                           THEN MovedPos(given_pos, cmd)
                           ELSE given_pos
    /\ parts_read' = parts_read + 1
    /\ UNCHANGED <<samples, gpc, printer_bbox, segarray, seg_done, vx, writers,
                   unclamped, gcode_result, out_field>>
    /\ UNCHANGED <<mvars, rvars, svars, bvars, kvars>>

-----------------------------------------------------------------------------
(* BoundingBox::from and the dilated printer bounding box                  *)

RECURSIVE BoundingBoxFrom(_)
BoundingBoxFrom(segs) ==
    IF segs = <<>>
    THEN [min_x |-> F32Max, min_y |-> F32Max, min_z |-> F32Max,
          max_x |-> -F32Max, max_y |-> -F32Max, max_z |-> -F32Max]
    ELSE LET n == Len(segs)
             bb == BoundingBoxFrom(SubSeq(segs, 1, n - 1))
             pt1 == segs[n].start
             pt2 == segs[n].end
         IN  [min_x |-> MinOf(MinOf(bb.min_x, pt1[1]), pt2[1]),
              min_y |-> MinOf(MinOf(bb.min_y, pt1[2]), pt2[2]),
              min_z |-> MinOf(MinOf(bb.min_z, pt1[3]), pt2[3]),
              max_x |-> MaxOf(MaxOf(bb.max_x, pt1[1]), pt2[1]),
              max_y |-> MaxOf(MaxOf(bb.max_y, pt1[2]), pt2[2]),
              max_z |-> MaxOf(MaxOf(bb.max_z, pt1[3]), pt2[3])]

\* Mutant: layer 0 is not left out of the bounding box.
InBboxLayersAll(seg) == IsSome(seg.layer)

\* The filter of the bounding box: `seg.state.layer.map(|l| l > 0).unwrap_or(false)`.
InBboxLayers(seg) == IsSome(seg.layer) /\ Unwrap(seg.layer) > 0

BboxSegments(segs) == SelectSeq(segs, InBboxLayers)

\* The dilation of voxelizer.rs 167-174; nd is the nozzle diameter.
DilatedBbox(bb, nd) ==
    [min_x |-> F32Add(bb.min_x, -(nd \div 2)),
     min_y |-> F32Add(bb.min_y, -(nd \div 2)),
     min_z |-> F32Add(bb.min_z, -((2 * nd) \div 2)),
     max_x |-> F32Add(bb.max_x, nd \div 2),
     max_y |-> F32Add(bb.max_y, nd \div 2),
     max_z |-> F32Add(bb.max_z, nd \div 2)]

PrinterBbox(segs, nd) == DilatedBbox(BoundingBoxFrom(BboxSegments(segs)), nd)

\* BoundingBox::size per axis.  For the box of no point it is
\* f32::MIN - f32::MAX, which is -infinity in f32: only its sign is used.
SizeX(bb) == bb.max_x - bb.min_x
SizeY(bb) == bb.max_y - bb.min_y

-----------------------------------------------------------------------------
(* voxelize_gcode: the grid and the footprint of a segment                 *)

Voxels(zc) == (0 .. zc - 1) \X (0 .. zc - 1) \X (0 .. zc - 1)

SegsOfLayer(segs, k) ==
    LET InLayer(seg) == seg.layer = Some(k)
    IN  SelectSeq(segs, InLayer)

\* `segarray[key]` of voxelizer.rs 200 indexes past the array.
GroupPanics(segs, zc) ==
    \E n \in 1 .. Len(segs) : IsSome(segs[n].layer) /\ Unwrap(segs[n].layer) >= zc

\* Mutant: the upper clamp `.min((c - 1) as isize)` is missing.
ClampIndexNoUpper(v, c) == MaxOf(v, 0)

\* `(v as isize).max(0).min((c - 1) as isize) as usize`
ClampIndex(v, c) == MinOf(MaxOf(v, 0), c - 1)

\* The index range of a footprint along one axis before clamping
\* (voxelizer.rs 226-248): p and q are the segment's endpoint coordinates,
\* bmin and size those of the box, c the cell count, nd the nozzle diameter.
\* With size <= 0 the voxel coordinates are 0 or NaN (size is -infinity for
\* the box of no point, and 0 only when nd = 0 makes the nozzle extent NaN),
\* and floor/ceil then cast to 0.
RawRange(p, q, bmin, size, c, nd) ==
    IF size <= 0 THEN <<0, 0>>
    ELSE << FloorDiv((2 * (MinOf(p, q) - bmin) - nd) * c, 2 * size),
            CeilDiv((2 * (MaxOf(p, q) - bmin) + nd) * c, 2 * size) >>

ClampedRange(r, c) == <<ClampIndex(r[1], c), ClampIndex(r[2], c)>>

RangeJ(seg, bb, c, nd) == RawRange(seg.start[2], seg.end[2], bb.min_y, SizeY(bb), c, nd)
RangeI(seg, bb, c, nd) == RawRange(seg.start[1], seg.end[1], bb.min_x, SizeX(bb), c, nd)

\* The (j, i) pairs of the loops `for j in j_min..=j_max`, `for i in
\* i_min..=i_max` (voxelizer.rs 250-251).
Visited(seg, bb, c, nd) ==
    LET rj == ClampedRange(RangeJ(seg, bb, c, nd), c)
        ri == ClampedRange(RangeI(seg, bb, c, nd), c)
    IN  (rj[1] .. rj[2]) \X (ri[1] .. ri[2])

\* `vx_layer.get_mut((j, i))` is None.
OutOfGrid(ji, c) == ~(ji[1] \in 0 .. c - 1 /\ ji[2] \in 0 .. c - 1)

ReachesOutside(seg, bb, c, nd) ==
    LET rj == RangeJ(seg, bb, c, nd)
        ri == RangeI(seg, bb, c, nd)
    IN  rj[1] < 0 \/ rj[2] > c - 1 \/ ri[1] < 0 \/ ri[2] > c - 1

\* The seed of a voxel's generator (voxelizer.rs 258).
VoxelSeed(k, j, i, c) == k * c * c + j * c + i

\* The n-th draw of `rnd.gen_range(-0.5, 0.5)` from a generator seeded with
\* `seed`, in quarters of a voxel: a fixed function of (seed, n) with values
\* in [-0.5, 0.5).
JitterQ(seed, n) == ((7 * seed + 5 * n + 3) % 4) - 2

\* The position of sample l of voxel (j, i), times 4 (voxelizer.rs 254-268).
SampleX4(i, seed, l) == 4 * i + 2 + (IF l = 0 THEN 0 ELSE JitterQ(seed, 2 * (l - 1)))
SampleY4(j, seed, l) == 4 * j + 2 + (IF l = 0 THEN 0 ELSE JitterQ(seed, 2 * (l - 1) + 1))

\* `is_in` of voxelizer.rs 274-285 for the sample at (px4 / 4, py4 / 4), by
\* cross-multiplication in box units scaled by 4 c.  Every comparison with a
\* NaN is false: the box of no point, a zero nozzle diameter (division of the
\* offset by a zero nozzle extent) and a zero-length segment (s = 0 / 0).
IsIn(seg, px4, py4, bb, c, nd) ==
    LET sx == SizeX(bb)
        sy == SizeY(bb)
        Dx == seg.end[1] - seg.start[1]
        Dy == seg.end[2] - seg.start[2]
        Wx == px4 * sx - 4 * c * (seg.start[1] - bb.min_x)
        Wy == py4 * sy - 4 * c * (seg.start[2] - bb.min_y)
        Vx == px4 * sx - 4 * c * (seg.end[1] - bb.min_x)
        Vy == py4 * sy - 4 * c * (seg.end[2] - bb.min_y)
        dd == sy * sy * Dx * Dx + sx * sx * Dy * Dy
        wd == sy * sy * Wx * Dx + sx * sx * Wy * Dy
        h4 == 2 * c * nd
        cross == Wx * Dy - Wy * Dx
    IN  IF sx <= 0 \/ sy <= 0 \/ nd = 0 \/ dd = 0 THEN FALSE
        ELSE IF wd > 4 * c * dd THEN Vx * Vx + Vy * Vy < h4 * h4
        ELSE IF wd < 0 THEN Wx * Wx + Wy * Wy < h4 * h4
        ELSE cross * cross * (sx * sx * sx * sx * Dy * Dy + sy * sy * sy * sy * Dx * Dx)
                 < h4 * h4 * dd * dd

\* in_samples of voxel (k, j, i) for one segment.
InSamples(seg, k, j, i, bb, c, nd, n) ==
    LET seed == VoxelSeed(k, j, i, c)
    IN  Cardinality({l \in 0 .. n - 1 :
            IsIn(seg, SampleX4(i, seed, l), SampleY4(j, seed, l), bb, c, nd)})

\* `((in_samples as f32 / samples as f32) * 255.0) as u8`: the f32 product
\* truncates to floor(255 in / n) (checked for every n below 600).
Coverage(in, n) == (in * U8Max) \div n

\* Mutant: u8::wrapping_add.
WrappingAdd(a, b) == (a + b) % (U8Max + 1)

\* u8::saturating_add
SaturatingAdd(a, b) == IF a + b > U8Max THEN U8Max ELSE a + b

\* Mutant: every worker is handed the first slice.
LayerSliceShared(k) == 0

\* The slice of the grid handed to the worker of layer k by
\* `vx.outer_iter_mut()`.
LayerSlice(k) == k

-----------------------------------------------------------------------------
(* voxelize_gcode: after the parse loop                                    *)

\* The ways voxelize_gcode panics instead of returning.
PanicIndex == "panic: segarray index out of bounds"
PanicAssert == "panic: assertion failed: seg.start.z == seg.end.z"
PanicOutOfBounds == "panic: out of bounds"

NoBbox == [min_x |-> 0, min_y |-> 0, min_z |-> 0, max_x |-> 0, max_y |-> 0, max_z |-> 0]
NoField == [box |-> NoBbox, shape |-> <<0, 0, 0>>, data |-> <<>>]

\* The parts are exhausted: `tail` are the raw lines after the last part,
\* which the loop never reads.  Then voxelizer.rs 158-207: the bounding box,
\* the per-layer segment lists and the zeroed grid.  The loop's locals that
\* nothing reads after the loop (the part count, current_x/y/z and
\* current_state) are dropped here.
EndOfParts(tail) ==
    /\ gpc = "parse"
    /\ trace_layers' = trace_layers + CountLines(tail, LayerClose)
    /\ LET zc == current_layer
       IN  /\ printer_bbox' = PrinterBbox(segments, nozzle_diameter)
           /\ IF GroupPanics(segments, zc)
              THEN /\ gpc' = "done"
                   /\ gcode_result' = PanicIndex
                   /\ UNCHANGED <<segarray, seg_done, vx, writers>>
              ELSE /\ gpc' = "raster"
                   /\ gcode_result' = "pending"
                   /\ segarray' = [k \in 0 .. zc - 1 |-> SegsOfLayer(segments, k)]
                   /\ seg_done' = [k \in 0 .. zc - 1 |-> 0]
                   /\ vx' = [v \in Voxels(zc) |-> 0]
                   /\ writers' = [v \in Voxels(zc) |-> {}]
    /\ parts_read' = 0
    /\ state_layer' = None
    /\ current_pos' = <<None, None, None>>
    /\ given_pos' = <<None, None, None>>
    /\ UNCHANGED <<samples, current_layer, nozzle_diameter, segments,
                   unclamped, out_field>>
    /\ UNCHANGED <<mvars, rvars, svars, bvars, kvars>>

\* The worker of layer k rasterizes its next segment (the body of
\* `for seg in layer_segs`, voxelizer.rs 210-295).
RasterSegment(k) ==
    /\ gpc = "raster"
    /\ k \in DOMAIN segarray
    /\ seg_done[k] < Len(segarray[k])
    /\ LET seg == segarray[k][seg_done[k] + 1]
           c == current_layer
           bb == printer_bbox
           nd == nozzle_diameter
           visited == Visited(seg, bb, c, nd)
           Hit(v) == v[1] = LayerSlice(k) /\ <<v[2], v[3]>> \in visited
       IN  IF seg.start[3] # seg.end[3]
           THEN \* assert!(seg.start.z == seg.end.z)
                /\ gpc' = "done"
                /\ gcode_result' = PanicAssert
                /\ UNCHANGED <<seg_done, vx, writers, unclamped>>
           ELSE IF \E ji \in visited : OutOfGrid(ji, c)
           THEN \* get_mut(..).ok_or_else(..).unwrap()
                /\ gpc' = "done"
                /\ gcode_result' = PanicOutOfBounds
                /\ UNCHANGED <<seg_done, vx, writers, unclamped>>
           ELSE /\ vx' = [v \in DOMAIN vx |->
                            IF Hit(v)
                            THEN SaturatingAdd(vx[v],
                                     Coverage(InSamples(seg, k, v[2], v[3], bb, c, nd, samples),
                                              samples))
                            ELSE vx[v]]
                /\ writers' = [v \in DOMAIN vx |->
                                 IF Hit(v) THEN writers[v] \cup {k} ELSE writers[v]]
                /\ unclamped' = (unclamped \/ ReachesOutside(seg, bb, c, nd))
                /\ seg_done' = [seg_done EXCEPT ![k] = @ + 1]
                /\ UNCHANGED <<gpc, gcode_result>>
    /\ UNCHANGED <<samples, parts_read, current_layer,
                   state_layer, current_pos, given_pos, nozzle_diameter, segments,
                   trace_layers, printer_bbox, segarray, out_field>>
    /\ UNCHANGED <<mvars, rvars, svars, bvars, kvars>>

\* Every worker has returned: `Ok(ParamField::new_u8(printer_bbox, vx))`.
ReturnField ==
    /\ gpc = "raster"
    /\ \A k \in DOMAIN segarray : seg_done[k] = Len(segarray[k])
    /\ gpc' = "done"
    /\ gcode_result' = "ok"
    /\ out_field' = [box |-> printer_bbox,
                     shape |-> <<current_layer, current_layer, current_layer>>,
                     data |-> vx]
    /\ UNCHANGED <<samples, parts_read, current_layer,
                   state_layer, current_pos, given_pos, nozzle_diameter, segments,
                   trace_layers, printer_bbox, segarray, seg_done, vx, writers,
                   unclamped>>
    /\ UNCHANGED <<mvars, rvars, svars, bvars, kvars>>

SampleCounts == {1, 4}

\* voxelize_gcode before the call (the state of the other specifications).
IdleGcode ==
    /\ samples = 1
    /\ gpc = "idle"
    /\ parts_read = 0
    /\ current_layer = 0
    /\ state_layer = None
    /\ current_pos = <<None, None, None>>
    /\ given_pos = <<None, None, None>>
    /\ nozzle_diameter = 0
    /\ segments = <<>>
    /\ trace_layers = 0
    /\ printer_bbox = NoBbox
    /\ segarray = <<>>
    /\ seg_done = <<>>
    /\ vx = <<>>
    /\ writers = <<>>
    /\ unclamped = FALSE
    /\ gcode_result = "pending"
    /\ out_field = NoField

\* voxelize_mesh before the call.
IdleMesh ==
    /\ mpc = "idle"
    /\ printed_field = [box |-> NoBbox, shape |-> <<0, 0, 0>>]
    /\ mesh_bbox = NoBbox
    /\ zdepth = <<>>
    /\ ydepth = <<>>
    /\ xdepth = <<>>
    /\ renders = 0
    /\ vis = <<>>
    /\ mesh_result = "pending"
    /\ mesh_field = NoField

\* ParamField::resample before the call.
IdleResample ==
    /\ rpc = "idle"
    /\ self_field = NoField
    /\ mask_field = NoField
    /\ reads = <<>>
    /\ resample_result = "pending"
    /\ resampled = NoField

\* The locals of compute_output_stats before the call.
StatsAtRest ==
    /\ dir_field = <<>>
    /\ dir_length_field = <<>>
    /\ dir_change_field = <<>>
    /\ zipped = {}
    /\ cur_voxel = <<0, 0, 0>>
    /\ sample = 0
    /\ max_dir = <<0, 0, 0>>
    /\ max_val = 0
    /\ last_change = 0
    /\ dists = <<>>
    /\ ray_start = <<0, 0, 0>>
    /\ ray_dir = <<0, 0, 0>>
    /\ current_point = <<0, 0, 0>>
    /\ out = FALSE
    /\ ray_iters = 0
    /\ stopped_at = <<0, 0, 0>>
    /\ steps = 0
    /\ mon_pc = "none"
    /\ mon_last = 0
    /\ stats_result = "pending"

IdleStats ==
    /\ spc = "idle"
    /\ stat_vx = NoField
    /\ stat_im = NoField
    /\ kernel_size_mm = 0
    /\ dir_samples = 0
    /\ StatsAtRest

IdleBag ==
    /\ bpc = "idle"
    /\ param_fields = <<>>
    /\ param_arrays = <<>>
    /\ field_names = {}
    /\ bag_events = 0
    /\ bag_ops = 0
    /\ bag_call = [op |-> "new", name |-> "", result |-> "ok"]

BlurAtRest ==
    /\ blur_pass = 0
    /\ blur_written = {}
    /\ mean_field_a = <<>>
    /\ mean_field_b = <<>>
    /\ mean_field_confidence_f = <<>>
    /\ pass_log = <<>>
    /\ mean_field = <<>>
    /\ mean_field_confidence = <<>>

IdleBlur ==
    /\ blur_pc = "idle"
    /\ BlurAtRest

InitGcode ==
    /\ IdleMesh
    /\ IdleResample
    /\ IdleStats
    /\ IdleBag
    /\ IdleBlur
    /\ samples \in SampleCounts
    /\ gpc = "parse"
    /\ parts_read = 0
    /\ current_layer = 0
    /\ state_layer = None
    /\ current_pos = <<None, None, None>>
    /\ given_pos = <<None, None, None>>
    /\ nozzle_diameter = 0
    /\ segments = <<>>
    /\ trace_layers = 0
    /\ printer_bbox = NoBbox
    /\ segarray = <<>>
    /\ seg_done = <<>>
    /\ vx = <<>>
    /\ writers = <<>>
    /\ unclamped = FALSE
    /\ gcode_result = "pending"
    /\ out_field = NoField

NextGcode ==
    \/ \E gap \in Gaps(IsSome(state_layer)), cmd \in Commands : ParsePart(gap, cmd)
    \/ \E tail \in Gaps(IsSome(state_layer)) : EndOfParts(tail)
    \/ \E k \in 0 .. MaxLayers : RasterSegment(k)
    \/ ReturnField

SpecGcode == InitGcode /\ [][NextGcode]_vars

-----------------------------------------------------------------------------
(* Properties of voxelize_gcode                                            *)

\* What one segment adds to voxel v: floor(255 in_samples / samples) inside
\* its clamped footprint, nothing outside.
AddedBy(seg, v) ==
    IF <<v[2], v[3]>> \in Visited(seg, printer_bbox, current_layer, nozzle_diameter)
    THEN (255 * InSamples(seg, v[1], v[2], v[3], printer_bbox, current_layer,
                          nozzle_diameter, samples)) \div samples
    ELSE 0

\* The sum of what the first n segments of `segs` add to voxel v.
RECURSIVE SumAdded(_, _, _)
SumAdded(segs, n, v) ==
    IF n = 0 THEN 0 ELSE SumAdded(segs, n - 1, v) + AddedBy(segs[n], v)

\* C1: the field returned for a trace (here one that extrudes something) has
\* shape (L, L, L), L being the number of layers that the marker lines of
\* the trace delimit, wherever the markers stand.
C1_ShapeIsTraceLayerCount ==
    (gcode_result = "ok" /\ segments # <<>>) =>
        out_field.shape = <<trace_layers, trace_layers, trace_layers>>

\* C2: at every moment a voxel holds min(255, sum of the
\* floor(255 in_samples / samples) of the segments rasterized so far in its
\* layer); a step never lowers a voxel and never takes it past 255.
C2_VoxelIsCappedSum ==
    \A v \in DOMAIN vx :
        vx[v] = MinOf(255, SumAdded(segarray[v[1]], seg_done[v[1]], v))

C2_VoxelNeverDecreases ==
    \A v \in DOMAIN vx : v \in DOMAIN vx' => (vx[v] <= vx'[v] /\ vx'[v] <= 255)

C2_SaturatingAccumulation ==
    [](C2_VoxelIsCappedSum) /\ [][C2_VoxelNeverDecreases]_vars

\* Two segments overlap on a voxel, each adds to it, and the sum is cut at 255
\* (their average would be lower).
C2_Witness ==
    \E v \in DOMAIN vx :
        /\ seg_done[v[1]] = 2
        /\ AddedBy(segarray[v[1]][1], v) > 0
        /\ AddedBy(segarray[v[1]][2], v) > 0
        /\ SumAdded(segarray[v[1]], 2, v) > 255
        /\ vx[v] = 255

\* The endpoints of the segments whose layer index is >= 1.
BboxPoints ==
    UNION { {segments[n].start, segments[n].end} :
            n \in {m \in 1 .. Len(segments) :
                     segments[m].layer # None /\ segments[m].layer[1] >= 1} }

\* [lo, hi] is the tight interval of the points' coordinate `axis`.
TightOn(lo, hi, axis) ==
    /\ \A p \in BboxPoints : lo <= p[axis] /\ p[axis] <= hi
    /\ \E p \in BboxPoints : p[axis] = lo
    /\ \E p \in BboxPoints : p[axis] = hi

\* C3 as stated: the box of the field is the tight box of the endpoints of
\* layers >= 1, enlarged by nozzle_diameter / 2 on the X and Y sides and by
\* nozzle_diameter on both Z sides.
C3_BboxFullNozzleOnBothZSides ==
    (gcode_result = "ok" /\ BboxPoints # {}) =>
        LET b == out_field.box
            h == nozzle_diameter \div 2
        IN  /\ TightOn(b.min_x + h, b.max_x - h, 1)
            /\ TightOn(b.min_y + h, b.max_y - h, 2)
            /\ TightOn(b.min_z + nozzle_diameter, b.max_z - nozzle_diameter, 3)

\* C3 amended: ... by nozzle_diameter on the min-Z side and by
\* nozzle_diameter / 2 on the max-Z side.
C3_BboxHalfNozzleOnMaxZ ==
    (gcode_result = "ok" /\ BboxPoints # {}) =>
        LET b == out_field.box
            h == nozzle_diameter \div 2
        IN  /\ TightOn(b.min_x + h, b.max_x - h, 1)
            /\ TightOn(b.min_y + h, b.max_y - h, 2)
            /\ TightOn(b.min_z + nozzle_diameter, b.max_z - h, 3)

\* A field is returned for a trace with a nozzle diameter, a segment in
\* layer 0 and a segment in a layer >= 1.
C3_Witness ==
    /\ gcode_result = "ok"
    /\ BboxPoints # {}
    /\ nozzle_diameter > 0
    /\ \E n \in 1 .. Len(segments) : segments[n].layer = Some(0)

\* C4: a trace of exactly one layer, closed before the last command, whose
\* segments are horizontal moves of that layer, rasterized with samples = 4
\* and a nozzle diameter, gives a 1x1x1 field whose voxel is 255.
C4_SingleLayerIsFull ==
    ( /\ gcode_result = "ok"
      /\ samples = 4
      /\ nozzle_diameter > 0
      /\ trace_layers = 1
      /\ current_layer = 1
      /\ Len(segments) >= 2
      /\ \A n \in 1 .. Len(segments) :
            /\ segments[n].layer = Some(0)
            /\ segments[n].start # segments[n].end
            /\ segments[n].start[3] = segments[n].end[3] )
    => ( /\ out_field.shape = <<1, 1, 1>>
         /\ out_field.data[<<0, 0, 0>>] = 255 )

\* C5 as stated: a footprint range that reaches outside the grid ends the
\* rasterization with an error and no field.
C5_OutsideGridIsError ==
    (gpc = "done" /\ unclamped) => gcode_result # "ok"

\* C5 amended: a footprint range that reaches outside the grid is clamped to
\* the grid: no out-of-bounds error is ever raised, and the field is
\* returned unless the z assertion of some segment fails.
C5_OutsideGridIsClamped ==
    /\ gcode_result # PanicOutOfBounds
    /\ (gpc = "done" /\ unclamped) => gcode_result \in {"ok", PanicAssert}
    /\ \A v \in DOMAIN writers : writers[v] # {} => v \in Voxels(current_layer)

C5_Witness ==
    gpc = "done" /\ unclamped /\ gcode_result = "ok"

\* The field computed layer after layer, segment after segment.
SequentialField ==
    [v \in Voxels(current_layer) |->
        MinOf(255, SumAdded(SegsOfLayer(segments, v[1]),
                            Len(SegsOfLayer(segments, v[1])), v))]

\* C6: whatever the interleaving of the layer workers, a voxel of slice k is
\* written by the worker of layer k only, and the field returned is the one
\* computed sequentially from (trace, samples).
C6_DeterministicField ==
    /\ \A v \in DOMAIN writers : writers[v] \subseteq {v[1]}
    /\ gcode_result = "ok" => out_field.data = SequentialField

\* Two layer workers have both written voxels and the field is returned.
C6_Witness ==
    /\ gcode_result = "ok"
    /\ \E v, w \in DOMAIN writers :
          v[1] # w[1] /\ writers[v] # {} /\ writers[w] # {}
          /\ out_field.data[v] > 0 /\ out_field.data[w] > 0


-----------------------------------------------------------------------------
(* voxelize_mesh                                                           *)

MaxDim == 2         \* voxels per axis of the target field
DepthDen == 4       \* depth values are multiples of 1 / DepthDen

Dims == (1 .. MaxDim) \X (1 .. MaxDim) \X (1 .. MaxDim)

PrintedBox == [min_x |-> 0, min_y |-> 0, min_z |-> 0, max_x |-> 4, max_y |-> 4, max_z |-> 4]
DesignBox == [min_x |-> 1, min_y |-> 1, min_z |-> 1, max_x |-> 3, max_y |-> 3, max_z |-> 5]
MeshBoxes == {PrintedBox, DesignBox}

\* A depth buffer holds the depth in units of 1 / DepthDen.  After the
\* "scale back" of render_axis a pixel that no triangle covers holds a value
\* above 1 in the closest-point buffer (cleared to 1.0) and a value below 0
\* in the furthest-point buffer (cleared to 0.0).
ClearedPlus == DepthDen + 1
ClearedMinus == -1

\* What the depth draw can return: the pixels the mesh covers and the
\* (closest, furthest) depth of the mesh there.
DepthIntervals == {<<0, DepthDen>>, <<0, DepthDen - 1>>, <<1, DepthDen>>}
Covers == {"all", "row0", "col0", "none"}

Covered(cover, rc) ==
    \/ cover = "all"
    \/ cover = "row0" /\ rc[1] = 0
    \/ cover = "col0" /\ rc[2] = 0

Pixels(image_height, image_width) == (0 .. image_height - 1) \X (0 .. image_width - 1)

\* `draw`: an (image_height, image_width) array.
DepthBuf(cover, d, cleared, image_height, image_width) ==
    [dim |-> <<image_height, image_width>>,
     at |-> [rc \in Pixels(image_height, image_width) |->
                IF Covered(cover, rc) THEN d ELSE cleared]]

\* render_axis returns (buf_plus, buf_minus).
RenderAxis(image_width, image_height, cover, iv) ==
    [plus |-> DepthBuf(cover, iv[1], ClearedPlus, image_height, image_width),
     minus |-> DepthBuf(cover, iv[2], ClearedMinus, image_height, image_width)]

\* x.fract() of x = x2 / 2: the part after the decimal point, with the sign
\* of x; the result is again in halves.
Fract2(x2) == IF x2 >= 0 THEN x2 % 2 ELSE -((-x2) % 2)

\* axis_val(pos, min, max), doubled: pos = pos2 / 2, min = minN / DepthDen,
\* max = maxN / DepthDen.  The result is 2 for 1.0, 0 for 0.0.
AxisValNoOutside(pos2, minN, maxN) ==
    LET min_ceil == 2 * CeilDiv(minN, DepthDen)
        max_floor == 2 * FloorDiv(maxN, DepthDen)
    IN  IF pos2 >= min_ceil /\ pos2 <= max_floor THEN 2
        ELSE IF pos2 < min_ceil THEN Fract2(min_ceil - pos2)
        ELSE Fract2(pos2 - max_floor)

AxisVal(pos2, minN, maxN) ==
    LET min_ceil == 2 * CeilDiv(minN, DepthDen)
        min_floor == 2 * FloorDiv(minN, DepthDen)
        max_ceil == 2 * CeilDiv(maxN, DepthDen)
        max_floor == 2 * FloorDiv(maxN, DepthDen)
    IN  IF pos2 >= min_ceil /\ pos2 <= max_floor THEN 2
        ELSE IF pos2 < min_floor \/ pos2 > max_ceil THEN 0
        ELSE IF pos2 < min_ceil THEN Fract2(min_ceil - pos2)
        ELSE Fract2(pos2 - max_floor)

\* ((a * b * c) * 255.0) as u8, for a, b, c given doubled.  The factors are
\* 0, 0.5 or 1, so every f32 product is exact.
Occupancy(a2, b2, c2) == (((a2 * b2) * c2) * U8Max) \div 8


\* The depth draws behind the buffers one render_axis returns: one `draw()`
\* per buffer (closest points, then furthest points).
DepthDrawsOne(bufs) == 1

DepthDraws(bufs) == Cardinality(DOMAIN bufs)

\* The pixel of each axis' depth buffers that the voxel (k, j, i) reads.
ZPixel(v, zd) == <<v[2], zd.plus.dim[2] - 1 - v[3]>>
YPixel(v, yd) == <<v[1], yd.plus.dim[2] - 1 - v[3]>>
XPixel(v, xd) == <<v[2], xd.plus.dim[2] - 1 - v[1]>>

PixelsInBounds(v, zd, yd, xd) ==
    /\ ZPixel(v, zd) \in DOMAIN zd.plus.at
    /\ YPixel(v, yd) \in DOMAIN yd.plus.at
    /\ XPixel(v, xd) \in DOMAIN xd.plus.at

\* The doubled position of the voxel along each axis: (dim - 1 - index) + 0.5.
VoxelPos2(index, d) == 2 * (d - 1 - index) + 1

\* The body of the par_azip! of voxelize_mesh for the voxel v = (k, j, i).
\* The bounds z_min .. x_max are kept multiplied by DepthDen.
ClassifyVoxel(v, printed_dim, zd, yd, xd) ==
    LET z_min == zd.plus.at[ZPixel(v, zd)] * printed_dim[1]
        z_max == zd.minus.at[ZPixel(v, zd)] * printed_dim[1]
        y_min == yd.plus.at[YPixel(v, yd)] * printed_dim[2]
        y_max == yd.minus.at[YPixel(v, yd)] * printed_dim[2]
        x_min == xd.plus.at[XPixel(v, xd)] * printed_dim[3]
        x_max == xd.minus.at[XPixel(v, xd)] * printed_dim[3]
        k2 == VoxelPos2(v[1], printed_dim[1])
        j2 == VoxelPos2(v[2], printed_dim[2])
        i2 == VoxelPos2(v[3], printed_dim[3])
    IN  Occupancy(AxisVal(k2, z_min, z_max),
                  AxisVal(j2, y_min, y_max),
                  AxisVal(i2, x_min, x_max))

GridOf(shape) == (0 .. shape[1] - 1) \X (0 .. shape[2] - 1) \X (0 .. shape[3] - 1)

\* The box of the returned field.
MeshFieldBoxOfMesh(printed, mesh_box) == mesh_box

MeshFieldBox(printed, mesh_box) == printed.box

\* The shape of `vis`: (printed_dim.0, printed_dim.1, printed_dim.2).
MeshFieldShape(printed) == <<printed.shape[1], printed.shape[2], printed.shape[3]>>

\* The GL context, the shader program and the buffers are created.
MeshSetup ==
    /\ mpc = "setup"
    /\ mpc' = "render_z"
    /\ UNCHANGED <<printed_field, mesh_bbox, zdepth, ydepth, xdepth, renders,
                   vis, mesh_result, mesh_field>>
    /\ UNCHANGED <<gvars, rvars, svars, bvars, kvars>>

\* Any of the `?` of voxelize_mesh and render_axis returns the error.
MeshFails ==
    /\ mpc \in {"setup", "render_z", "render_y", "render_x"}
    /\ mpc' = "done"
    /\ mesh_result' = "error"
    /\ UNCHANGED <<printed_field, mesh_bbox, zdepth, ydepth, xdepth, renders,
                   vis, mesh_field>>
    /\ UNCHANGED <<gvars, rvars, svars, bvars, kvars>>

\* render_axis(mesh_bbox, printed_dim.2, printed_dim.1, ..)
RenderZ(cover, iv) ==
    /\ mpc = "render_z"
    /\ zdepth' = RenderAxis(printed_field.shape[3], printed_field.shape[2], cover, iv)
    /\ renders' = renders + DepthDraws(zdepth')
    /\ mpc' = "render_y"
    /\ UNCHANGED <<printed_field, mesh_bbox, ydepth, xdepth,
                   vis, mesh_result, mesh_field>>
    /\ UNCHANGED <<gvars, rvars, svars, bvars, kvars>>

\* render_axis(mesh_bbox, printed_dim.2, printed_dim.0, ..)
RenderY(cover, iv) ==
    /\ mpc = "render_y"
    /\ ydepth' = RenderAxis(printed_field.shape[3], printed_field.shape[1], cover, iv)
    /\ renders' = renders + DepthDraws(ydepth')
    /\ mpc' = "render_x"
    /\ UNCHANGED <<printed_field, mesh_bbox, zdepth, xdepth,
                   vis, mesh_result, mesh_field>>
    /\ UNCHANGED <<gvars, rvars, svars, bvars, kvars>>

\* render_axis(mesh_bbox, printed_dim.0, printed_dim.1, ..)
RenderX(cover, iv) ==
    /\ mpc = "render_x"
    /\ xdepth' = RenderAxis(printed_field.shape[1], printed_field.shape[2], cover, iv)
    /\ renders' = renders + DepthDraws(xdepth')
    /\ mpc' = "classify"
    /\ UNCHANGED <<printed_field, mesh_bbox, zdepth, ydepth,
                   vis, mesh_result, mesh_field>>
    /\ UNCHANGED <<gvars, rvars, svars, bvars, kvars>>

PanicDepthIndex == "panic: ndarray: index out of bounds"

\* The par_azip! over `vis`: every voxel is written once, from the depth
\* buffers and its own index only.
ClassifyVoxels ==
    /\ mpc = "classify"
    /\ LET shape == MeshFieldShape(printed_field)
       IN  IF \A v \in GridOf(shape) : PixelsInBounds(v, zdepth, ydepth, xdepth)
           THEN /\ vis' = [shape |-> shape,
                           data |-> [v \in GridOf(shape) |->
                                       ClassifyVoxel(v, printed_field.shape,
                                                     zdepth, ydepth, xdepth)]]
                /\ mpc' = "return"
                /\ UNCHANGED mesh_result
           ELSE /\ mpc' = "done"
                /\ mesh_result' = PanicDepthIndex
                /\ UNCHANGED vis
    /\ UNCHANGED <<printed_field, mesh_bbox, zdepth, ydepth, xdepth, renders,
                   mesh_field>>
    /\ UNCHANGED <<gvars, rvars, svars, bvars, kvars>>

\* Ok(ParamField::new_u8(printed_field.field_box_mm, vis))
ReturnMesh ==
    /\ mpc = "return"
    /\ mpc' = "done"
    /\ mesh_result' = "ok"
    /\ mesh_field' = [box |-> MeshFieldBox(printed_field, mesh_bbox),
                      shape |-> vis.shape, data |-> vis.data]
    /\ UNCHANGED <<printed_field, mesh_bbox, zdepth, ydepth, xdepth, renders, vis>>
    /\ UNCHANGED <<gvars, rvars, svars, bvars, kvars>>

InitMesh ==
    /\ IdleGcode
    /\ IdleResample
    /\ IdleStats
    /\ IdleBag
    /\ IdleBlur
    /\ mpc = "setup"
    /\ printed_field \in [box : MeshBoxes, shape : Dims]
    /\ mesh_bbox \in MeshBoxes
    /\ zdepth = <<>>
    /\ ydepth = <<>>
    /\ xdepth = <<>>
    /\ renders = 0
    /\ vis = <<>>
    /\ mesh_result = "pending"
    /\ mesh_field = NoField

NextMesh ==
    \/ MeshSetup
    \/ MeshFails
    \/ \E cover \in Covers, iv \in DepthIntervals : RenderZ(cover, iv)
    \/ \E cover \in Covers, iv \in DepthIntervals : RenderY(cover, iv)
    \/ \E cover \in Covers, iv \in DepthIntervals : RenderX(cover, iv)
    \/ ClassifyVoxels
    \/ ReturnMesh

SpecMesh == InitMesh /\ [][NextMesh]_vars


-----------------------------------------------------------------------------
(* Properties of voxelize_mesh                                             *)

\* C7: the field that voxelize_mesh returns has the shape (nz, ny, nx) of
\* printed_field and exactly printed_field's bounding box, whatever the
\* mesh's own bounding box and the depth buffers are.
C7_CoRegistered ==
    mesh_result = "ok" =>
        /\ mesh_field.shape = printed_field.shape
        /\ mesh_field.box = printed_field.box
        /\ DOMAIN mesh_field.data = GridOf(printed_field.shape)

C7_Witness ==
    /\ mesh_result = "ok"
    /\ mesh_bbox # printed_field.box
    /\ printed_field.shape[1] # printed_field.shape[3]
    /\ printed_field.shape[1] # printed_field.shape[2]

\* The voxel's cell [n, n + 1] along one axis and the [near, far] interval it
\* is compared with, both in voxel units (near, far multiplied by DepthDen).
CellOf(index, d) == d - 1 - index
CellInside(n, nearN, farN) == n * DepthDen >= nearN /\ (n + 1) * DepthDen <= farN
CellOutside(n, nearN, farN) == (n + 1) * DepthDen < nearN \/ n * DepthDen > farN

NearFar(v, axis) ==
    LET d == printed_field.shape
    IN  CASE axis = "z" -> <<CellOf(v[1], d[1]),
                             zdepth.plus.at[ZPixel(v, zdepth)] * d[1],
                             zdepth.minus.at[ZPixel(v, zdepth)] * d[1]>>
          [] axis = "y" -> <<CellOf(v[2], d[2]),
                             ydepth.plus.at[YPixel(v, ydepth)] * d[2],
                             ydepth.minus.at[YPixel(v, ydepth)] * d[2]>>
          [] axis = "x" -> <<CellOf(v[3], d[3]),
                             xdepth.plus.at[XPixel(v, xdepth)] * d[3],
                             xdepth.minus.at[XPixel(v, xdepth)] * d[3]>>

Axes == {"z", "y", "x"}
InsideOn(v, axis) == CellInside(NearFar(v, axis)[1], NearFar(v, axis)[2], NearFar(v, axis)[3])
OutsideOn(v, axis) == CellOutside(NearFar(v, axis)[1], NearFar(v, axis)[2], NearFar(v, axis)[3])
AxisValOn(v, axis) == AxisVal(2 * NearFar(v, axis)[1] + 1, NearFar(v, axis)[2], NearFar(v, axis)[3])

\* C8: once the voxels are classified, a voxel whose cell lies inside the
\* [near, far] interval on all three axes holds 255, a voxel whose cell lies
\* strictly outside the interval on some axis holds 0, and the value is the
\* same in whichever order the three axes are combined.
C8_InsideFullOutsideEmpty ==
    vis # <<>> =>
        \A v \in DOMAIN vis.data :
            /\ (\A axis \in Axes : InsideOn(v, axis)) => vis.data[v] = U8Max
            /\ (\E axis \in Axes : OutsideOn(v, axis)) => vis.data[v] = 0
            /\ \A a \in Axes : \A b \in Axes \ {a} : \A c \in Axes \ {a, b} :
                  vis.data[v] = Occupancy(AxisValOn(v, a), AxisValOn(v, b),
                                          AxisValOn(v, c))

C8_Witness ==
    /\ mesh_result = "ok"
    /\ \E v \in DOMAIN mesh_field.data :
          (\A axis \in Axes : InsideOn(v, axis)) /\ mesh_field.data[v] = U8Max
    /\ \E v \in DOMAIN mesh_field.data :
          /\ \E axis \in Axes : OutsideOn(v, axis) /\ NearFar(v, axis)[2] <= DepthDen * MaxDim
          /\ mesh_field.data[v] = 0
    /\ \E v \in DOMAIN mesh_field.data : mesh_field.data[v] \notin {0, U8Max}


-----------------------------------------------------------------------------
(* ParamField::resample                                                    *)

\* An f32 is kept as a fraction [n, d] with d >= 0: n / d when d > 0,
\* +infinity as 1 / 0, -infinity as -1 / 0 and NaN as 0 / 0.  With these the
\* cross-multiplied product and quotient give what IEEE 754 gives for every
\* value the routine meets (x / 0, 0 / 0, inf * 0, inf / inf, ..).  Rounding
\* to 24 bits is left out: a coordinate is the exact quotient.
Sign(n) == IF n > 0 THEN 1 ELSE IF n < 0 THEN -1 ELSE 0

Frac(n, d) ==
    IF d < 0 THEN [n |-> -n, d |-> -d]
    ELSE IF d = 0 THEN [n |-> Sign(n), d |-> 0]
    ELSE [n |-> n, d |-> d]

FracMul(a, b) == Frac(a.n * b.n, a.d * b.d)
FracDiv(a, b) == Frac(a.n * b.d, a.d * b.n)
IsNaN(a) == a.d = 0 /\ a.n = 0

\* max - min of a bounding box, which overflows to an infinity for the box
\* of no point (f32::MAX, f32::MIN).
F32Sub(a, b) ==
    IF a - b > F32Max THEN Frac(1, 0)
    ELSE IF a - b < -F32Max THEN Frac(-1, 0)
    ELSE Frac(a - b, 1)

\* BoundingBox::size(), as (x, y, z).
BoxSize(bb) == <<F32Sub(bb.max_x, bb.min_x), F32Sub(bb.max_y, bb.min_y),
                 F32Sub(bb.max_z, bb.min_z)>>

\* size().component_div((dim.2, dim.1, dim.0)), as (x, y, z).
ScaleOf(field) ==
    LET size == BoxSize(field.box)
    IN  <<FracDiv(size[1], Frac(field.shape[3], 1)),
          FracDiv(size[2], Frac(field.shape[2], 1)),
          FracDiv(size[3], Frac(field.shape[1], 1))>>

\* One component of p: (index + 0.5) * out_scale / in_scale.
SrcCoord(index, out_scale, in_scale) ==
    FracDiv(FracMul(Frac(2 * index + 1, 2), out_scale), in_scale)

\* isize::MAX and isize::MIN: `as isize` saturates (only their lying beyond
\* every array index matters here).
ISizeMax == 2147483647
ISizeMin == -ISizeMax - 1

\* x.floor() as isize, x.ceil() as isize: NaN casts to 0.
FloorAsIsize(a) ==
    IF IsNaN(a) THEN 0
    ELSE IF a.d = 0 THEN (IF a.n > 0 THEN ISizeMax ELSE ISizeMin)
    ELSE FloorDiv(a.n, a.d)

CeilAsIsize(a) ==
    IF IsNaN(a) THEN 0
    ELSE IF a.d = 0 THEN (IF a.n > 0 THEN ISizeMax ELSE ISizeMin)
    ELSE CeilDiv(a.n, a.d)

\* x.fract(): x - x.trunc(); NaN for NaN and the infinities.
FractOf(a) ==
    IF a.d = 0 THEN Frac(0, 0)
    ELSE LET t == IF a.n >= 0 THEN a.n \div a.d ELSE -((-a.n) \div a.d)
         IN  Frac(a.n - t * a.d, a.d)

\* (v).max(0).min((dim - 1) as isize) as usize
ClampSrcNoUpper(v, d) == MaxOf(v, 0)

ClampSrc(v, d) == MinOf(MaxOf(v, 0), d - 1)

\* The coordinates of the destination voxel v = (k, j, i) in the source
\* array: p as (x, y, z), the clamped floor and ceil indices and the weights.
SrcPoint(v, src, mask) ==
    LET out_scale == ScaleOf(mask)
        in_scale == ScaleOf(src)
        px == SrcCoord(v[3], out_scale[1], in_scale[1])
        py == SrcCoord(v[2], out_scale[2], in_scale[2])
        pz == SrcCoord(v[1], out_scale[3], in_scale[3])
    IN  [p |-> <<px, py, pz>>,
         px1 |-> ClampSrc(FloorAsIsize(px), src.shape[3]),
         py1 |-> ClampSrc(FloorAsIsize(py), src.shape[2]),
         pz1 |-> ClampSrc(FloorAsIsize(pz), src.shape[1]),
         px2 |-> ClampSrc(CeilAsIsize(px), src.shape[3]),
         py2 |-> ClampSrc(CeilAsIsize(py), src.shape[2]),
         pz2 |-> ClampSrc(CeilAsIsize(pz), src.shape[1]),
         ax |-> FractOf(px), ay |-> FractOf(py), az |-> FractOf(pz)]

\* One source read: the index (z, y, x) and, per axis, whether the value is
\* weighted by a (1) or by 1 - a (0), as <<z, y, x>>.
Read(z, y, x, wz, wy, wx) == [idx |-> <<z, y, x>>, w |-> <<wz, wy, wx>>]

\* The reads of the ByteVec4 variant, in the order of c00, c01, c10, c11.
ScalarReads(q) ==
    << Read(q.pz1, q.py1, q.px1, 0, 0, 0), Read(q.pz1, q.py1, q.px2, 0, 0, 1),
       Read(q.pz2, q.py1, q.px1, 1, 0, 0), Read(q.pz2, q.py1, q.px2, 1, 0, 1),
       Read(q.pz1, q.py2, q.px1, 0, 1, 0), Read(q.pz1, q.py2, q.px2, 0, 1, 1),
       Read(q.pz2, q.py2, q.px1, 1, 1, 0), Read(q.pz1, q.py2, q.px2, 1, 1, 1) >>

\* The reads of the Vec3 variant, in the order of c000 .. c111.
VectorReads(q) ==
    << Read(q.pz1, q.py1, q.px1, 0, 0, 0), Read(q.pz2, q.py1, q.px1, 1, 0, 0),
       Read(q.pz1, q.py2, q.px1, 0, 1, 0), Read(q.pz2, q.py2, q.px1, 1, 1, 0),
       Read(q.pz1, q.py1, q.px2, 0, 0, 1), Read(q.pz2, q.py1, q.px2, 1, 0, 1),
       Read(q.pz1, q.py2, q.px2, 0, 1, 1), Read(q.pz2, q.py2, q.px2, 1, 1, 1) >>


\* The weight of one axis: a = a.n / a.d, or 1 - a.
WeightNum(bit, a) == IF bit = 1 THEN a.n ELSE a.d - a.n

ReadWeight(r, q) ==
    WeightNum(r.w[1], q.az) * WeightNum(r.w[2], q.ay) * WeightNum(r.w[3], q.ax)

\* The common denominator of the weights; 0 when a weight is NaN.
InterpDen(q) == q.ax.d * q.ay.d * q.az.d

\* c0 * (1.0 - az) + c1 * az, multiplied by InterpDen: the blend of the
\* component `comp` of the values read (array[(.., 0)] is component 1).
RECURSIVE InterpNum(_, _, _, _)
InterpNum(rs, q, data, comp) ==
    IF rs = <<>> THEN 0
    ELSE data[Head(rs).idx][comp] * ReadWeight(Head(rs), q)
            + InterpNum(Tail(rs), q, data, comp)

\* (num / den) as u8, den > 0: truncated toward zero and saturated.
AsU8(num, den) == IF num <= 0 THEN 0 ELSE MinOf(num \div den, U8Max)

\* *d = (*m as f32 / 255.0 * (c0 * (1.0 - az) + c1 * az)) as u8; NaN casts to 0.
ScalarValue(m, rs, q, data) ==
    IF InterpDen(q) = 0 THEN 0
    ELSE AsU8(m * InterpNum(rs, q, data, 1), U8Max * InterpDen(q))

\* m / 255 * (..).normalize(): kept as the mask value and the direction that
\* is normalized (a vector of that direction); NaN when a weight is NaN or
\* the blend is the zero vector.
VectorValue(m, rs, q, data) ==
    LET dir == <<InterpNum(rs, q, data, 1), InterpNum(rs, q, data, 2),
                 InterpNum(rs, q, data, 3)>>
    IN  IF InterpDen(q) = 0 \/ dir = <<0, 0, 0>>
        THEN [nan |-> TRUE, m |-> m, dir |-> <<0, 0, 0>>]
        ELSE [nan |-> FALSE, m |-> m, dir |-> dir]

RECURSIVE ReadIndices(_)
ReadIndices(rs) == IF rs = <<>> THEN <<>> ELSE <<Head(rs).idx>> \o ReadIndices(Tail(rs))

ReadsOf(v, src, mask) ==
    IF src.storage = "ByteVec4" THEN ScalarReads(SrcPoint(v, src, mask))
    ELSE VectorReads(SrcPoint(v, src, mask))

\* An ndarray index outside the array panics.
IndexPanics(src, mask) ==
    \E v \in GridOf(mask.shape) :
        \E n \in 1 .. 8 : ReadsOf(v, src, mask)[n].idx \notin GridOf(src.shape)

PanicMaskType == "panic: invalid input mask type"
PanicStorage == "panic: unsupported field storage type for resampling"
PanicSrcIndex == "panic: ndarray: index out of bounds"

\* mask.as_u8().expect("invalid input mask type")
ResampleInvalidMask ==
    /\ rpc = "call"
    /\ mask_field.storage # "Byte"
    /\ rpc' = "done"
    /\ resample_result' = PanicMaskType
    /\ UNCHANGED <<self_field, mask_field, reads, resampled>>
    /\ UNCHANGED <<gvars, mvars, svars, bvars, kvars>>

\* _ => panic!("unsupported field storage type for resampling")
ResampleUnsupported ==
    /\ rpc = "call"
    /\ mask_field.storage = "Byte"
    /\ self_field.storage \notin {"ByteVec4", "Vec3"}
    /\ rpc' = "done"
    /\ resample_result' = PanicStorage
    /\ UNCHANGED <<self_field, mask_field, reads, resampled>>
    /\ UNCHANGED <<gvars, mvars, svars, bvars, kvars>>

\* The arm of `storage`: the par_azip! over the mask's voxels, each written
\* from the source array, the mask and its own index only.
ResampleArm(storage) ==
    /\ rpc' = "done"
    /\ IF IndexPanics(self_field, mask_field)
       THEN /\ resample_result' = PanicSrcIndex
            /\ UNCHANGED <<reads, resampled>>
       ELSE /\ resample_result' = "ok"
            /\ reads' = [v \in GridOf(mask_field.shape) |->
                            ReadIndices(ReadsOf(v, self_field, mask_field))]
            /\ resampled' =
                 [storage |-> IF storage = "ByteVec4" THEN "Byte" ELSE "Vec3",
                  box |-> mask_field.box,
                  shape |-> mask_field.shape,
                  data |-> [v \in GridOf(mask_field.shape) |->
                              LET q == SrcPoint(v, self_field, mask_field)
                                  rs == ReadsOf(v, self_field, mask_field)
                              IN  IF storage = "ByteVec4"
                                  THEN ScalarValue(mask_field.data[v], rs, q,
                                                   self_field.data)
                                  ELSE VectorValue(mask_field.data[v], rs, q,
                                                   self_field.data)]]
    /\ UNCHANGED <<self_field, mask_field>>
    /\ UNCHANGED <<gvars, mvars, svars, bvars, kvars>>

\* FieldStorage::ByteVec4(array) => ..
ResampleScalar ==
    /\ rpc = "call"
    /\ mask_field.storage = "Byte"
    /\ self_field.storage = "ByteVec4"
    /\ ResampleArm("ByteVec4")

\* FieldStorage::Vec3(array) => ..
ResampleVector ==
    /\ rpc = "call"
    /\ mask_field.storage = "Byte"
    /\ self_field.storage = "Vec3"
    /\ ResampleArm("Vec3")

\* The boxes of the fields: a regular one, one of no extent along Z and of
\* min_x > max_x, the box BoundingBox::from gives for no point, and one of
\* min_x > max_x only (from_attr takes the six bounds as they are written).
FlatBox == [min_x |-> 4, min_y |-> 0, min_z |-> 2, max_x |-> 0, max_y |-> 4, max_z |-> 2]
EmptyBox == [min_x |-> F32Max, min_y |-> F32Max, min_z |-> F32Max,
             max_x |-> -F32Max, max_y |-> -F32Max, max_z |-> -F32Max]
InvertedBox == [min_x |-> 5, min_y |-> 0, min_z |-> 0, max_x |-> 0, max_y |-> 5, max_z |-> 5]
FieldBoxes == {PrintedBox, FlatBox, EmptyBox, InvertedBox}

\* The shapes of the fields: cubes and rows along each axis.
FieldShapes ==
    UNION {{<<n, n, n>>, <<n, 1, 1>>, <<1, n, 1>>, <<1, 1, n>>} : n \in 1 .. MaxDim}

Parity(idx) == (idx[1] + idx[2] + idx[3]) % 2

\* The values of the source array: four bytes per voxel (ByteVec4), a
\* direction per voxel (Vec3) or an f32 per voxel (Float).
SrcPatterns == {"flat", "ramp"}
SrcValue(pattern, storage, idx) ==
    CASE storage = "Vec3" ->
            (IF pattern = "flat" THEN <<0, 0, 1>>
             ELSE IF Parity(idx) = 0 THEN <<1, 0, 0>> ELSE <<0, 1, 0>>)
      [] storage = "ByteVec4" ->
            (IF pattern = "flat" THEN <<U8Max, 0, 0, U8Max>>
             ELSE IF Parity(idx) = 0 THEN <<0, U8Max, 0, U8Max>>
             ELSE <<U8Max, 0, 0, U8Max>>)
      [] OTHER -> (IF pattern = "flat" THEN 1 ELSE Parity(idx))

MaskPatterns == {"full", "split"}
MaskValue(pattern, idx) ==
    IF pattern = "full" THEN U8Max
    ELSE IF Parity(idx) = 0 THEN U8Max ELSE 0

SrcField(st, bb, sh, pat) ==
    [storage |-> st, box |-> bb, shape |-> sh,
     data |-> [idx \in GridOf(sh) |-> SrcValue(pat, st, idx)]]

MaskField(st, bb, sh, pat) ==
    [storage |-> st, box |-> bb, shape |-> sh,
     data |-> [idx \in GridOf(sh) |-> MaskValue(pat, idx)]]

InitResample ==
    /\ IdleGcode
    /\ IdleMesh
    /\ IdleStats
    /\ IdleBag
    /\ IdleBlur
    /\ rpc = "call"
    /\ \E st \in {"ByteVec4", "Vec3", "Float"}, bb \in FieldBoxes,
          sh \in FieldShapes, pat \in SrcPatterns :
            self_field = SrcField(st, bb, sh, pat)
    /\ \E st \in {"Byte", "Float"}, bb \in FieldBoxes,
          sh \in FieldShapes, pat \in MaskPatterns :
            mask_field = MaskField(st, bb, sh, pat)
    /\ reads = <<>>
    /\ resample_result = "pending"
    /\ resampled = NoField

NextResample ==
    \/ ResampleInvalidMask
    \/ ResampleUnsupported
    \/ ResampleScalar
    \/ ResampleVector

SpecResample == InitResample /\ [][NextResample]_vars


-----------------------------------------------------------------------------
(* Properties of ParamField::resample                                      *)

\* The index of the nearest edge of 0 .. d - 1.
NearestEdge(c, d) == IF c < 0 THEN 0 ELSE IF c > d - 1 THEN d - 1 ELSE c

\* The two indices that may be read along one axis of the source.
EdgeIndices(a, d) == {NearestEdge(FloorAsIsize(a), d), NearestEdge(CeilAsIsize(a), d)}

\* C9: for every source and mask shape and every pair of bounding boxes, a
\* call of resample on a u8 mask and a ByteVec4 or Vec3 source returns
\* without an error, and every source index it read lies in the source array
\* and is, on each axis, the floor or the ceil of the coordinate moved to the
\* nearest edge of [0, src_dim - 1].
C9_SourceIndicesClamped ==
    (/\ rpc = "done"
     /\ mask_field.storage = "Byte"
     /\ self_field.storage \in {"ByteVec4", "Vec3"}) =>
        /\ resample_result = "ok"
        /\ DOMAIN reads = GridOf(mask_field.shape)
        /\ \A v \in GridOf(mask_field.shape) :
              /\ Len(reads[v]) = 8
              /\ \A n \in 1 .. Len(reads[v]) :
                    LET idx == reads[v][n]
                        p == SrcPoint(v, self_field, mask_field).p
                    IN  /\ idx \in GridOf(self_field.shape)
                        /\ idx[1] \in EdgeIndices(p[3], self_field.shape[1])
                        /\ idx[2] \in EdgeIndices(p[2], self_field.shape[2])
                        /\ idx[3] \in EdgeIndices(p[1], self_field.shape[3])

C9_Witness ==
    /\ rpc = "done"
    /\ resample_result = "ok"
    /\ \E v \in GridOf(mask_field.shape) :
          LET p == SrcPoint(v, self_field, mask_field).p
          IN  /\ FloorAsIsize(p[1]) < 0
              /\ CeilAsIsize(p[2]) > self_field.shape[2] - 1
              /\ CeilAsIsize(p[2]) < ISizeMax
    /\ \E v \in GridOf(mask_field.shape) : \E n \in 1 .. 8 :
          reads[v][n] # reads[v][1]

\* Every size of the box is a positive finite number.
RegularBox(bb) == \A n \in 1 .. 3 : BoxSize(bb)[n].d = 1 /\ BoxSize(bb)[n].n > 0

\* C10: when the source and the mask have the same dims and the same
\* (regular) bounding box and the mask is 255 everywhere, the output of the
\* scalar resample equals the source value at every voxel index.
C10_IdentityOnSameGrid ==
    (/\ rpc = "done"
     /\ resample_result = "ok"
     /\ self_field.storage = "ByteVec4"
     /\ self_field.shape = mask_field.shape
     /\ self_field.box = mask_field.box
     /\ RegularBox(self_field.box)
     /\ \A v \in GridOf(mask_field.shape) : mask_field.data[v] = U8Max) =>
        \A v \in GridOf(mask_field.shape) :
            resampled.data[v] = self_field.data[v][1]


\* C11: in the scalar variant the returned field has the mask's shape and
\* bounding box, is 0 wherever the mask is 0, and at no voxel exceeds the
\* interpolated source value (whenever that value is a number; the mask's
\* box is a regular one).
C11_MaskedNeverExceedsInterpolated ==
    (/\ rpc = "done"
     /\ resample_result = "ok"
     /\ self_field.storage = "ByteVec4"
     /\ RegularBox(mask_field.box)) =>
        /\ resampled.shape = mask_field.shape
        /\ resampled.box = mask_field.box
        /\ \A v \in GridOf(mask_field.shape) :
              LET q == SrcPoint(v, self_field, mask_field)
                  rs == ReadsOf(v, self_field, mask_field)
              IN  /\ mask_field.data[v] = 0 => resampled.data[v] = 0
                  /\ InterpDen(q) > 0 =>
                        resampled.data[v] * InterpDen(q)
                            <= InterpNum(rs, q, self_field.data, 1)


-----------------------------------------------------------------------------
(* Further properties of voxelize_gcode                                    *)

MinLeMax(bb) == bb.min_x <= bb.max_x /\ bb.min_y <= bb.max_y /\ bb.min_z <= bb.max_z

\* C14: once the parse loop is over, the box BoundingBox::from builds from
\* the endpoints of the segments of the layers >= 1 and the dilated box
\* derived from it have min <= max on each axis, also when no segment is in a
\* layer >= 1 (here: for a trace that has segments).
C14_BboxMinLeMax ==
    (gpc \in {"raster", "done"} /\ segments # <<>>) =>
        /\ MinLeMax(BoundingBoxFrom(BboxSegments(segments)))
        /\ MinLeMax(printer_bbox)


\* C17: every segment recorded inside a layer joins two points of the same
\* Z, and the rasterizer's assertion on it never fails.
C17_SegmentsAreFlat ==
    /\ \A n \in 1 .. Len(segments) :
          IsSome(segments[n].layer) => segments[n].start[3] = segments[n].end[3]
    /\ gcode_result # PanicAssert


\* C18: while the trace is parsed, the tracked current X, Y and Z are the
\* values most recently given for each axis by a G0 or a G1 command.
C18_TracksG0AndG1 ==
    gpc = "parse" => current_pos = given_pos


-----------------------------------------------------------------------------
(* Further properties of voxelize_mesh                                     *)

\* C19: when the voxels are classified and when the field is returned,
\* exactly 6 depth draws have been done (a closest and a furthest one for
\* each of Z, Y, X), and no step from the classification on draws again.
C19_SixDrawsDone ==
    (mpc \in {"classify", "return"} \/ mesh_result = "ok" \/ vis # <<>>) => renders = 6

C19_NoDrawAfterClassification ==
    mpc \in {"classify", "return", "done"} => renders' = renders

C19_SixRendersBeforeClassification ==
    [](C19_SixDrawsDone) /\ [][C19_NoDrawAfterClassification]_vars

C19_Witness ==
    /\ mesh_result = "ok"
    /\ renders = 6
    /\ vis # <<>>
    /\ zdepth # <<>> /\ ydepth # <<>> /\ xdepth # <<>>


\* The interval bound bN / DepthDen lies strictly inside the cell n.
BoundInCell(n, bN) == n * DepthDen < bN /\ bN < (n + 1) * DepthDen
FracPart(bN) == bN % DepthDen

\* The voxel v is a boundary voxel of `axis` through its near bound only.
NearBoundary(v, axis) ==
    /\ BoundInCell(NearFar(v, axis)[1], NearFar(v, axis)[2])
    /\ NearFar(v, axis)[3] >= (NearFar(v, axis)[1] + 1) * DepthDen

\* C20: once the voxels are classified, the per-axis occupancy of a voxel is
\* 1.0 when its cell lies inside [near, far], 0.0 when it lies outside, and
\* two boundary voxels whose near bounds have different fractional parts
\* have different partial values.
C20_PartialValueFollowsFraction ==
    vis # <<>> =>
        \A v \in DOMAIN vis.data : \A a \in Axes :
            /\ InsideOn(v, a) => AxisValOn(v, a) = 2
            /\ OutsideOn(v, a) => AxisValOn(v, a) = 0
            /\ \A w \in DOMAIN vis.data : \A b \in Axes :
                  (/\ NearBoundary(v, a) /\ NearBoundary(w, b)
                   /\ FracPart(NearFar(v, a)[2]) # FracPart(NearFar(w, b)[2]))
                      => AxisValOn(v, a) # AxisValOn(w, b)


-----------------------------------------------------------------------------
(* compute_output_stats: the direction raytrace (stats.rs 17-222)          *)
(*                                                                         *)
(* Lengths are exact rationals: a length is held as its numerator over     *)
(* LenDen(shape) millimetres.  The candidate directions are the six axis   *)
(* directions of `dirs`; the Halton directions drawn for dir_samples > 6   *)
(* are left out.                                                           *)

MaxIters == 4       \* iterations of the raytrace's `while !out` loop
MaxExtra == 1       \* samples beyond the six directions of `dirs`

\* const THRESHOLD: u8 = 128
THRESHOLD == 128

\* `dirs`, as (x, y, z).
Dirs == << <<0, 0, 1>>, <<0, 1, 0>>, <<1, 0, 0>>,
           <<0, 0, -1>>, <<0, -1, 0>>, <<-1, 0, 0>> >>

KernelSizes == {1, 8}
StatBoxes == {PrintedBox, DesignBox}
StatShapes == {<<1, 1, 1>>, <<1, 1, MaxDim>>, <<2, 1, 2>>}

VoxelPatterns == {"void", "split"}
VoxelValue(pattern, idx) ==
    IF pattern = "void" THEN 0
    ELSE IF Parity(idx) = 1 THEN U8Max ELSE 0

\* The mask: everywhere, on the slab z = 0 only, or everywhere at the
\* threshold.
StatMaskPatterns == {"full", "slab", "weak"}
StatMaskValue(pattern, idx) ==
    CASE pattern = "full" -> U8Max
      [] pattern = "slab" -> (IF idx[1] = 0 THEN U8Max ELSE 0)
      [] pattern = "weak" -> THRESHOLD

\* ndarray::Array::zeros(dim)
ZerosAsOnes(shape, zero) == [idx \in GridOf(shape) |-> 1]

Zeros(shape, zero) == [idx \in GridOf(shape) |-> zero]

\* field_box_mm.size(), as (x, y, z).
StatSize(bb) == <<bb.max_x - bb.min_x, bb.max_y - bb.min_y, bb.max_z - bb.min_z>>

\* The dimension of the grid along the x, y, z components of a vector.
DimXYZ(shape) == <<shape[3], shape[2], shape[1]>>

LenDen(shape) == shape[1] * shape[2] * shape[3]

\* untransform(current_point + kernel_size_mm * dir) for current_point the
\* centre of the voxel `cur` (z, y, x): per component
\* floor((c + 0.5) / scale * scale - 0.5 + (kernel_size_mm / 2) * dir * scale),
\* with scale = dim / size.
UntransformEnd(cur, dir, kernel, shape, bb) ==
    LET step(a) == FloorDiv(dir[a] * kernel * DimXYZ(shape)[a], 2 * StatSize(bb)[a])
    IN  <<cur[1] + step(3), cur[2] + step(2), cur[3] + step(1)>>

\* line_drawing::Bresenham3d::new(from, to) for a line along one axis:
\* every voxel from `from` to `to`, both included.
Bresenham3d(from, to) ==
    LET n == MaxOf(MaxOf(to[1] - from[1], from[1] - to[1]),
                   MaxOf(MaxOf(to[2] - from[2], from[2] - to[2]),
                         MaxOf(to[3] - from[3], from[3] - to[3])))
    IN  [t \in 1 .. n + 1 |->
            <<from[1] + (t - 1) * Sign(to[1] - from[1]),
              from[2] + (t - 1) * Sign(to[2] - from[2]),
              from[3] + (t - 1) * Sign(to[3] - from[3])>>]

LeftGrid(p, shape) ==
    \/ p[1] < 0 \/ p[1] >= shape[1]
    \/ p[2] < 0 \/ p[2] >= shape[2]
    \/ p[3] < 0 \/ p[3] >= shape[3]

\* cval >= THRESHOLD || cval_im <= THRESHOLD
HitsOrLeaves(cval, cval_im) == cval >= THRESHOLD \/ cval_im <= THRESHOLD

\* (current_point - start_point).norm() for two voxel centres on a line
\* along one axis, over LenDen(shape).
RayLength(from, to, shape, bb) ==
    LET along(a, k) ==
            MaxOf(to[k] - from[k], from[k] - to[k])
                * StatSize(bb)[a] * (LenDen(shape) \div DimXYZ(shape)[a])
    IN  along(3, 1) + along(2, 2) + along(1, 3)

\* dirs.iter().take(dir_samples)
SamplesTaken(n) == MinOf(n, Len(Dirs))

\* 0..(dir_samples.max(dirs.len()) - dirs.len()): the samples drawn from the
\* Halton sequences.
ExtraSamples(n) == MaxOf(n, Len(Dirs)) - Len(Dirs)

\* if d > max_val
LongerOrEqual(d, longest) == d >= longest

Longer(d, longest) == d > longest

\* steps.fetch_add(1, Relaxed)
FetchAddNone(n) == n

FetchAdd(n) == n + 1

\* compute_output_stats is called: the three output arrays are zeroed.
\* With dir_samples = 0 the raytrace block is skipped; otherwise the
\* progress thread is spawned with last = 0.
StatsCall ==
    /\ spc = "call"
    /\ dir_field' = Zeros(stat_vx.shape, <<0, 0, 0>>)
    /\ dir_length_field' = Zeros(stat_vx.shape, 0)
    /\ dir_change_field' = Zeros(stat_vx.shape, 0)
    /\ spc' = IF dir_samples > 0 THEN "zip" ELSE "return"
    /\ mon_pc' = IF dir_samples > 0 THEN "poll" ELSE "none"
    /\ UNCHANGED <<stat_args, zipped, fmd_vars, ray_vars, steps, mon_last, stats_result>>
    /\ UNCHANGED <<gvars, mvars, rvars, bvars, kvars>>

\* par_azip!: a voxel whose mask is 0 is stepped over.
SkipVoxel(v) ==
    /\ spc = "zip"
    /\ v \in GridOf(stat_vx.shape) \ zipped
    /\ ~(stat_im.data[v] > 0)
    /\ zipped' = zipped \cup {v}
    /\ steps' = FetchAdd(steps)
    /\ UNCHANGED <<spc, stat_args, stat_outs, fmd_vars, ray_vars, mon_pc, mon_last,
                   stats_result>>
    /\ UNCHANGED <<gvars, mvars, rvars, bvars, kvars>>

\* par_azip!: find_max_direction(k, j, i) starts for a voxel in the mask.
StartVoxel(v) ==
    /\ spc = "zip"
    /\ v \in GridOf(stat_vx.shape) \ zipped
    /\ stat_im.data[v] > 0
    /\ cur_voxel' = v
    /\ sample' = 0
    /\ max_dir' = <<0, 0, 0>>
    /\ max_val' = 0
    /\ last_change' = 0
    /\ dists' = <<>>
    /\ spc' = "dirs"
    /\ UNCHANGED <<stat_args, stat_outs, zipped, ray_vars, mon_vars, stats_result>>
    /\ UNCHANGED <<gvars, mvars, rvars, bvars, kvars>>

\* raytrace(k, j, i, *dir) is entered for the next direction of `dirs`.
StartRay ==
    /\ spc = "dirs"
    /\ sample < SamplesTaken(dir_samples)
    /\ ray_start' = cur_voxel
    /\ ray_dir' = Dirs[sample + 1]
    /\ current_point' = cur_voxel
    /\ out' = FALSE
    /\ ray_iters' = 0
    /\ spc' = "ray"
    /\ UNCHANGED <<stat_args, stat_outs, zipped, fmd_vars, stopped_at, mon_vars,
                   stats_result>>
    /\ UNCHANGED <<gvars, mvars, rvars, bvars, kvars>>

\* raytrace(k, j, i, dir) is entered from `for k in 0..(..)`: the loop
\* variable shadows the voxel's k.  The direction comes from the Halton
\* sequences; here it is any of `dirs`.
StartExtraRay(dir) ==
    /\ spc = "dirs"
    /\ sample >= SamplesTaken(dir_samples)
    /\ sample < SamplesTaken(dir_samples) + ExtraSamples(dir_samples)
    /\ ray_start' = <<sample - SamplesTaken(dir_samples), cur_voxel[2], cur_voxel[3]>>
    /\ ray_dir' = dir
    /\ current_point' = ray_start'
    /\ out' = FALSE
    /\ ray_iters' = 0
    /\ spc' = "ray"
    /\ UNCHANGED <<stat_args, stat_outs, zipped, fmd_vars, stopped_at, mon_vars,
                   stats_result>>
    /\ UNCHANGED <<gvars, mvars, rvars, bvars, kvars>>

\* One iteration of `while !out`: the line from the start voxel to the voxel
\* of end_point is walked up to the first voxel that is out of the grid,
\* hits material or leaves the mask.
RayStep ==
    /\ spc = "ray"
    /\ ~out
    /\ ray_iters < MaxIters
    /\ LET line == Bresenham3d(ray_start,
                               UntransformEnd(current_point, ray_dir, kernel_size_mm,
                                              stat_vx.shape, stat_vx.box))
           breaks == {t \in DOMAIN line :
                         \/ LeftGrid(line[t], stat_vx.shape)
                         \/ HitsOrLeaves(stat_vx.data[line[t]], stat_im.data[line[t]])}
           first == CHOOSE t \in breaks : \A u \in breaks : t <= u
       IN  IF breaks # {}
           THEN /\ out' = TRUE
                /\ stopped_at' = line[first]
                /\ current_point' = IF first = 1 THEN current_point ELSE line[first - 1]
           ELSE /\ out' = FALSE
                /\ current_point' = line[Len(line)]
                /\ UNCHANGED stopped_at
    /\ ray_iters' = ray_iters + 1
    /\ UNCHANGED <<spc, stat_args, stat_outs, zipped, fmd_vars, ray_start, ray_dir,
                   mon_vars, stats_result>>
    /\ UNCHANGED <<gvars, mvars, rvars, bvars, kvars>>

\* raytrace returns d; find_max_direction keeps the longest ray.
RayDone ==
    /\ spc = "ray"
    /\ out
    /\ LET d == RayLength(ray_start, current_point, stat_vx.shape, stat_vx.box)
       IN  /\ dists' = Append(dists, [d |-> d, dir |-> ray_dir, start |-> ray_start])
           /\ IF Longer(d, max_val)
              THEN /\ last_change' = d - max_val
                   /\ max_dir' = ray_dir
                   /\ max_val' = d
              ELSE UNCHANGED <<last_change, max_dir, max_val>>
    /\ sample' = sample + 1
    /\ spc' = "dirs"
    /\ UNCHANGED <<stat_args, stat_outs, zipped, cur_voxel, ray_vars, mon_vars,
                   stats_result>>
    /\ UNCHANGED <<gvars, mvars, rvars, bvars, kvars>>

\* find_max_direction returns: the voxel's three outputs are written and
\* the step counter is incremented.
VoxelDone ==
    /\ spc = "dirs"
    /\ sample >= SamplesTaken(dir_samples) + ExtraSamples(dir_samples)
    /\ dir_field' = [dir_field EXCEPT ![cur_voxel] = max_dir]
    /\ dir_length_field' = [dir_length_field EXCEPT ![cur_voxel] = max_val]
    /\ dir_change_field' = [dir_change_field EXCEPT ![cur_voxel] = last_change]
    /\ zipped' = zipped \cup {cur_voxel}
    /\ steps' = FetchAdd(steps)
    /\ spc' = "zip"
    /\ UNCHANGED <<stat_args, fmd_vars, ray_vars, mon_pc, mon_last, stats_result>>
    /\ UNCHANGED <<gvars, mvars, rvars, bvars, kvars>>

\* The progress thread, one turn of `while last != total`: it loads the
\* counter into `last` and sleeps.
MonitorPoll ==
    /\ mon_pc = "poll"
    /\ mon_last # Cardinality(GridOf(stat_vx.shape))
    /\ mon_last' = steps
    /\ mon_last' # mon_last
    /\ UNCHANGED <<spc, stat_args, stat_outs, zipped, fmd_vars, ray_vars, steps, mon_pc,
                   stats_result>>
    /\ UNCHANGED <<gvars, mvars, rvars, bvars, kvars>>

\* The progress thread leaves its loop: last = total.
MonitorExit ==
    /\ mon_pc = "poll"
    /\ mon_last = Cardinality(GridOf(stat_vx.shape))
    /\ mon_pc' = "finished"
    /\ UNCHANGED <<spc, stat_args, stat_outs, zipped, fmd_vars, ray_vars, steps,
                   mon_last, stats_result>>
    /\ UNCHANGED <<gvars, mvars, rvars, bvars, kvars>>

\* par_azip! returns: every voxel is done.
ZipDone ==
    /\ spc = "zip"
    /\ zipped = GridOf(stat_vx.shape)
    /\ spc' = "join"
    /\ UNCHANGED <<stat_args, stat_outs, zipped, fmd_vars, ray_vars, mon_vars,
                   stats_result>>
    /\ UNCHANGED <<gvars, mvars, rvars, bvars, kvars>>

\* thd.join().unwrap() returns once the progress thread has finished.
JoinMonitor ==
    /\ spc = "join"
    /\ mon_pc = "finished"
    /\ spc' = "return"
    /\ UNCHANGED <<stat_args, stat_outs, zipped, fmd_vars, ray_vars, mon_vars,
                   stats_result>>
    /\ UNCHANGED <<gvars, mvars, rvars, bvars, kvars>>

\* Ok(OutputStats { .. })
StatsReturn ==
    /\ spc = "return"
    /\ stats_result' = "ok"
    /\ spc' = "done"
    /\ UNCHANGED <<stat_args, stat_outs, zipped, fmd_vars, ray_vars, mon_vars>>
    /\ UNCHANGED <<gvars, mvars, rvars, bvars, kvars>>

InitStats ==
    /\ IdleGcode
    /\ IdleMesh
    /\ IdleResample
    /\ IdleBag
    /\ IdleBlur
    /\ spc = "call"
    /\ \E bb \in StatBoxes, sh \in StatShapes, vp \in VoxelPatterns,
          mp \in StatMaskPatterns :
          /\ stat_vx = [box |-> bb, shape |-> sh,
                        data |-> [idx \in GridOf(sh) |-> VoxelValue(vp, idx)]]
          /\ stat_im = [box |-> bb, shape |-> sh,
                        data |-> [idx \in GridOf(sh) |-> StatMaskValue(mp, idx)]]
    /\ kernel_size_mm \in KernelSizes
    /\ dir_samples \in {0, 1, Len(Dirs), Len(Dirs) + MaxExtra}
    /\ StatsAtRest

NextStats ==
    \/ StatsCall
    \/ \E v \in GridOf(stat_vx.shape) : SkipVoxel(v)
    \/ \E v \in GridOf(stat_vx.shape) : StartVoxel(v)
    \/ StartRay
    \/ \E dir \in {Dirs[n] : n \in DOMAIN Dirs} : StartExtraRay(dir)
    \/ RayStep
    \/ RayDone
    \/ VoxelDone
    \/ MonitorPoll
    \/ MonitorExit
    \/ ZipDone
    \/ JoinMonitor
    \/ StatsReturn

SpecStats == InitStats /\ [][NextStats]_vars

\* The progress thread and the joining thread are scheduled fairly.
SpecStatsFair ==
    /\ SpecStats
    /\ WF_vars(MonitorPoll)
    /\ WF_vars(MonitorExit)
    /\ WF_vars(ZipDone)
    /\ WF_vars(JoinMonitor)
    /\ WF_vars(StatsReturn)

-----------------------------------------------------------------------------
(* Properties of compute_output_stats                                      *)

\* C12: whenever the three direction outputs exist, the direction-length is
\* >= 0 at every voxel, and at every voxel whose mask is 0 the
\* direction-length, the three components of the direction and the
\* direction-change are exactly 0.
C12_DirectionZeroOutsideMask ==
    dir_length_field # <<>> =>
        \A v \in GridOf(stat_vx.shape) :
            /\ dir_length_field[v] >= 0
            /\ stat_im.data[v] = 0 =>
                  /\ dir_length_field[v] = 0
                  /\ dir_field[v] = <<0, 0, 0>>
                  /\ dir_change_field[v] = 0

C12_Witness ==
    /\ stats_result = "ok"
    /\ \E v \in GridOf(stat_vx.shape) : stat_im.data[v] = 0
    /\ \E v \in GridOf(stat_vx.shape) : dir_length_field[v] > 0

\* The voxel p lies further along the direction dir (x, y, z) than q.
Further(p, q, dir) ==
    (p[1] - q[1]) * dir[3] + (p[2] - q[2]) * dir[2] + (p[3] - q[3]) * dir[1] > 0

\* C13: each iteration of the raytrace's outer loop either sets the stop
\* flag or moves the current point to a voxel further along the ray.
C13_IterationStopsOrAdvances ==
    (spc = "ray" /\ ray_iters' = ray_iters + 1) =>
        \/ out'
        \/ Further(current_point', current_point, ray_dir)

C13_RaytraceProgresses == [][C13_IterationStopsOrAdvances]_vars


-----------------------------------------------------------------------------
(* ParamBag (param_bag.rs) and ParamField::derive_from_array               *)
(*                                                                         *)
(* A field is held as [storage, depth] (depth = dim.0), an array as        *)
(* [kind, len].  param_fields and param_arrays are functions from the keys *)
(* present to these records.                                               *)

MaxEvents == 3      \* XML elements read by ParamBag::parse
MaxOps == 2         \* ParamBag calls made after the parse
MaxLen == 2         \* length of a parameter array

Names == {"a", "b"}
ValueKinds == {"float", "string"}
EmptyMap == [k \in {} |-> 0]

\* HashMap::insert and HashMap::remove
Insert(map, key, value) ==
    [k \in DOMAIN map \cup {key} |-> IF k = key THEN value ELSE map[k]]
Remove(map, key) == [k \in DOMAIN map \ {key} |-> map[k]]

BagCall(op, name, result) == [op |-> op, name |-> name, result |-> result]

PanicArrayIndex == "panic: index out of bounds"
PanicShape == "panic: azip shape mismatch"

\* ParamField::from_attr: a ByteVec4 field of the size the attributes give.
FromAttr(depth) == [storage |-> "ByteVec4", depth |-> depth]

\* ParamArrayStorage::try_add on an array of `kind`: a value that does not
\* parse as the array's element type is an error.
TryAddFails(kind, value_kind) == kind = "float" /\ value_kind = "string"

\* derive_from_array, for z in 0 .. dim.0 - 1 and a source of length len:
\* src_z = (z + 0.5) / (dim.0 + 1) * (len + 1) - 0.5 as the rational
\* SrcZNum / SrcZDen, src_idx = src_z.floor() as usize (0 when negative) and
\* src_idx_p1 = (src_idx + 1).min(src.len()).
SrcZNum(z, depth, len) == (2 * z + 1) * (len + 1) - (depth + 1)
SrcZDen(depth) == 2 * (depth + 1)
SrcIdx(z, depth, len) ==
    IF SrcZNum(z, depth, len) < 0 THEN 0
    ELSE FloorDiv(SrcZNum(z, depth, len), SrcZDen(depth))
SrcIdxP1(z, depth, len) == MinOf(SrcIdx(z, depth, len) + 1, len)

\* The indices of `src` that derive_from_array reads.
DeriveReads(depth, len) ==
    UNION {{SrcIdx(z, depth, len), SrcIdxP1(z, depth, len)} : z \in 0 .. depth - 1}

\* `src[..]` panics on an index that is not below src.len().
DerivePanics(depth, len) == \E n \in DeriveReads(depth, len) : n >= len

\* array.as_f64_slice(): None for an array of strings.
AsF64Slice(array) == array.kind # "string"

\* The conversion of a field to a float array, as as_f32_array does it:
\* None for a Vec3 field.
AsFloatArray(field) == field.storage # "Vec3"

\* parse: an element with a `field` attribute.  add_field inserts under the
\* element's name.
ParseField(name, depth) ==
    /\ bpc = "parse"
    /\ bag_events < MaxEvents
    /\ bag_events' = bag_events + 1
    /\ field_names' = field_names \cup {name}
    /\ param_fields' = Insert(param_fields, name, FromAttr(depth))
    /\ bag_call' = BagCall("add_field", name, "ok")
    /\ UNCHANGED <<bpc, param_arrays, bag_ops>>
    /\ UNCHANGED <<gvars, mvars, rvars, svars, kvars>>

\* parse: ParamField::from_attr fails and `?` ends the parse.
ParseFieldFails(name) ==
    /\ bpc = "parse"
    /\ bag_events < MaxEvents
    /\ bag_events' = bag_events + 1
    /\ field_names' = field_names \cup {name}
    /\ bag_call' = BagCall("add_field", name, "err")
    /\ bpc' = "done"
    /\ UNCHANGED <<param_fields, param_arrays, bag_ops>>
    /\ UNCHANGED <<gvars, mvars, rvars, svars, kvars>>

\* parse: an element `name_idx` with a `value` attribute.  It is discarded
\* when the name is already a field; otherwise add_array_item.
ParseValue(name, idx, value_kind) ==
    /\ bpc = "parse"
    /\ bag_events < MaxEvents
    /\ bag_events' = bag_events + 1
    /\ IF name \in field_names
       THEN UNCHANGED <<bpc, param_arrays, bag_call>>
       ELSE IF name \in DOMAIN param_arrays
       THEN IF TryAddFails(param_arrays[name].kind, value_kind)
            THEN /\ bpc' = "done"
                 /\ bag_call' = BagCall("add_array_item", name, "err")
                 /\ UNCHANGED param_arrays
            ELSE /\ param_arrays' =
                        [param_arrays EXCEPT ![name].len = MaxOf(@, idx + 1)]
                 /\ bag_call' = BagCall("add_array_item", name, "ok")
                 /\ UNCHANGED bpc
       ELSE /\ param_arrays' =
                   Insert(param_arrays, name, [kind |-> value_kind, len |-> idx + 1])
            /\ bag_call' = BagCall("add_array_item", name, "ok")
            /\ UNCHANGED bpc
    /\ UNCHANGED <<param_fields, field_names, bag_ops>>
    /\ UNCHANGED <<gvars, mvars, rvars, svars, kvars>>

\* parse returns Ok(param_bag).
EndParse ==
    /\ bpc = "parse"
    /\ bpc' = "pipeline"
    /\ UNCHANGED <<param_fields, param_arrays, field_names, bag_events, bag_ops,
                   bag_call>>
    /\ UNCHANGED <<gvars, mvars, rvars, svars, kvars>>

\* convert_to_field(name), when the array is missing or the bag has no field.
ConvertNotFound(name) ==
    /\ bpc = "pipeline"
    /\ bag_ops < MaxOps
    /\ name \notin DOMAIN param_arrays \/ DOMAIN param_fields = {}
    /\ bag_ops' = bag_ops + 1
    /\ bag_call' = BagCall("convert_to_field", name, "err")
    /\ UNCHANGED <<bpc, param_fields, param_arrays, field_names, bag_events>>
    /\ UNCHANGED <<gvars, mvars, rvars, svars, kvars>>

\* convert_to_field(name): `first` is the field param_fields.values().next()
\* yields, any of the fields.
ConvertToField(name, first) ==
    /\ bpc = "pipeline"
    /\ bag_ops < MaxOps
    /\ name \in DOMAIN param_arrays
    /\ first \in DOMAIN param_fields
    /\ bag_ops' = bag_ops + 1
    /\ IF ~AsF64Slice(param_arrays[name])
       THEN /\ bag_call' = BagCall("convert_to_field", name, "err")
            /\ UNCHANGED <<bpc, param_fields, param_arrays>>
       ELSE IF DerivePanics(param_fields[first].depth, param_arrays[name].len)
       THEN /\ bag_call' = BagCall("convert_to_field", name, PanicArrayIndex)
            /\ bpc' = "aborted"
            /\ UNCHANGED <<param_fields, param_arrays>>
       ELSE /\ param_fields' =
                   Insert(param_fields, name,
                          [storage |-> "Float", depth |-> param_fields[first].depth])
            /\ param_arrays' = Remove(param_arrays, name)
            /\ bag_call' = BagCall("convert_to_field", name, "ok")
            /\ UNCHANGED bpc
    /\ UNCHANGED <<field_names, bag_events>>
    /\ UNCHANGED <<gvars, mvars, rvars, svars, kvars>>

\* assemble_spherical(name, source_names) with one or two source names.
AssembleSpherical(name, source_names) ==
    /\ bpc = "pipeline"
    /\ bag_ops < MaxOps
    /\ bag_ops' = bag_ops + 1
    /\ IF \E n \in DOMAIN source_names : source_names[n] \notin DOMAIN param_fields
       THEN /\ bag_call' = BagCall("assemble_spherical", name, "err")
            /\ UNCHANGED <<bpc, param_fields>>
       ELSE LET sources == [n \in DOMAIN source_names |-> param_fields[source_names[n]]]
            IN  IF \E n \in DOMAIN sources : ~AsFloatArray(sources[n])
                THEN /\ bag_call' = BagCall("assemble_spherical", name, "err")
                     /\ UNCHANGED <<bpc, param_fields>>
                ELSE IF \E n \in DOMAIN sources : sources[n].depth # sources[1].depth
                THEN /\ bag_call' = BagCall("assemble_spherical", name, PanicShape)
                     /\ bpc' = "aborted"
                     /\ UNCHANGED param_fields
                ELSE /\ param_fields' =
                            Insert(param_fields, name,
                                   [storage |-> "Vec3", depth |-> sources[1].depth])
                     /\ bag_call' = BagCall("assemble_spherical", name, "ok")
                     /\ UNCHANGED bpc
    /\ UNCHANGED <<param_arrays, field_names, bag_events>>
    /\ UNCHANGED <<gvars, mvars, rvars, svars, kvars>>

\* The run ends.
BagDone ==
    /\ bpc = "pipeline"
    /\ bpc' = "done"
    /\ UNCHANGED <<param_fields, param_arrays, field_names, bag_events, bag_ops,
                   bag_call>>
    /\ UNCHANGED <<gvars, mvars, rvars, svars, kvars>>

SourceNames == {<<n>> : n \in Names} \cup {<<n, m>> : n \in Names, m \in Names}

InitBag ==
    /\ IdleGcode
    /\ IdleMesh
    /\ IdleResample
    /\ IdleStats
    /\ IdleBlur
    /\ bpc = "parse"
    /\ param_fields = EmptyMap
    /\ param_arrays = EmptyMap
    /\ field_names = {}
    /\ bag_events = 0
    /\ bag_ops = 0
    /\ bag_call = BagCall("new", "", "ok")

NextBag ==
    \/ \E name \in Names, depth \in 1 .. MaxDim : ParseField(name, depth)
    \/ \E name \in Names : ParseFieldFails(name)
    \/ \E name \in Names, idx \in 0 .. MaxLen - 1, kind \in ValueKinds :
          ParseValue(name, idx, kind)
    \/ EndParse
    \/ \E name \in Names : ConvertNotFound(name)
    \/ \E name \in Names, first \in Names : ConvertToField(name, first)
    \/ \E name \in Names, srcs \in SourceNames : AssembleSpherical(name, srcs)
    \/ BagDone

SpecBag == InitBag /\ [][NextBag]_vars

-----------------------------------------------------------------------------
(* Properties of ParamBag                                                  *)

\* C15: no step replaces or changes the field stored under a key that is
\* already in param_fields.
C15_KeysKeepTheirField ==
    \A k \in DOMAIN param_fields :
        k \in DOMAIN param_fields' /\ param_fields'[k] = param_fields[k]

C15_FieldsNeverReplaced == [][C15_KeysKeepTheirField]_vars

\* C16: a call of convert_to_field(name) ends either Ok, with `name` in
\* param_fields, removed from param_arrays and every other key as it was,
\* or Err, with param_fields and param_arrays unchanged.
C16_ConvertOutcome ==
    (bag_ops' = bag_ops + 1 /\ bag_call'.op = "convert_to_field") =>
        LET name == bag_call'.name
        IN  \/ /\ bag_call'.result = "ok"
               /\ name \in DOMAIN param_fields'
               /\ Remove(param_fields', name) = Remove(param_fields, name)
               /\ param_arrays' = Remove(param_arrays, name)
            \/ /\ bag_call'.result = "err"
               /\ UNCHANGED <<param_fields, param_arrays>>

C16_ConvertOkOrErr == [][C16_ConvertOutcome]_vars


-----------------------------------------------------------------------------
(* Further properties: layer grouping, trilinear corners, statistics       *)

\* C28: once the parts are exhausted, every segment that carries a layer
\* index k has k < current_layer, the count that sizes segarray and the
\* grid, and grouping the segments per layer never indexes past segarray.
C28_LayerIndexBelowCount ==
    gpc \in {"raster", "done"} =>
        /\ \A n \in 1 .. Len(segments) :
              IsSome(segments[n].layer) => Unwrap(segments[n].layer) < current_layer
        /\ gcode_result # PanicIndex


\* The corner of the source cell that the weights w = <<wz, wy, wx>> belong
\* to: index 2 on an axis weighted by a, index 1 on an axis weighted by 1 - a.
Corner(q, w) ==
    <<IF w[1] = 1 THEN q.pz2 ELSE q.pz1,
      IF w[2] = 1 THEN q.py2 ELSE q.py1,
      IF w[3] = 1 THEN q.px2 ELSE q.px1>>

\* C21: after a resample of a ByteVec4 or a Vec3 source, the eight reads of
\* every destination voxel carry the eight different weight products, and
\* each read is the corner its weights belong to.
C21_TrilinearCorners ==
    (rpc = "done" /\ resample_result = "ok") =>
        \A v \in GridOf(mask_field.shape) :
            LET q == SrcPoint(v, self_field, mask_field)
                rs == ReadsOf(v, self_field, mask_field)
            IN  /\ {rs[n].w : n \in 1 .. 8} = {0, 1} \X {0, 1} \X {0, 1}
                /\ \A n \in 1 .. 8 :
                      /\ reads[v][n] = rs[n].idx
                      /\ rs[n].idx = Corner(q, rs[n].w)


\* find_max_direction has returned for cur_voxel, a voxel in the mask.
VoxelEvaluated ==
    /\ dir_length_field # <<>>
    /\ cur_voxel \in zipped
    /\ stat_im.data[cur_voxel] > 0

\* C24: once a voxel in the mask has been evaluated, 6 + max(0,
\* dir_samples - 6) rays have been traced for it.
C24_SixPlusExtraRays ==
    VoxelEvaluated => Len(dists) = Len(Dirs) + MaxOf(0, dir_samples - Len(Dirs))

\* C25: every ray traced for a voxel, along a direction of `dirs` or along
\* an extra direction, starts at that voxel's own index.
C25_RaysStartAtVoxel ==
    spc \in {"dirs", "ray"} => \A n \in DOMAIN dists : dists[n].start = cur_voxel

\* C26's stop condition: outside the grid, mask below the threshold, or
\* occupancy at or above it.
StopsRay(p) ==
    \/ LeftGrid(p, stat_vx.shape)
    \/ stat_im.data[p] < THRESHOLD
    \/ stat_vx.data[p] >= THRESHOLD

\* C26: the voxel at which a ray stopped is outside the grid, or has a mask
\* value below the threshold, or an occupancy at or above it; the voxel the
\* ray has reached without stopping has none of these.
C26_StopCondition ==
    spc = "ray" =>
        /\ out => StopsRay(stopped_at)
        /\ (~out /\ ray_iters > 0) => ~StopsRay(current_point)

MaxDist(ds, upto) ==
    IF upto = 0 THEN 0
    ELSE CHOOSE m \in {ds[n].d : n \in 1 .. upto} \cup {0} :
            \A n \in 1 .. upto : ds[n].d <= m

\* The earliest candidate whose distance is the maximum.
Earliest(ds) ==
    CHOOSE n \in DOMAIN ds :
        /\ ds[n].d = MaxDist(ds, Len(ds))
        /\ \A m \in 1 .. n - 1 : ds[m].d < ds[n].d

\* C27: once the candidates of a voxel have been evaluated, direction-length
\* is the maximum distance, the direction is the earliest candidate that
\* attains it (the zero vector exactly when the maximum is 0), and
\* direction-change is the maximum minus the largest earlier distance, so
\* 0 <= direction-change <= direction-length.
C27_LongestEarliestCandidate ==
    (VoxelEvaluated /\ dists # <<>>) =>
        LET longest == MaxDist(dists, Len(dists))
            first == Earliest(dists)
        IN  /\ dir_length_field[cur_voxel] = longest
            /\ dir_field[cur_voxel] =
                  IF longest = 0 THEN <<0, 0, 0>> ELSE dists[first].dir
            /\ (dir_field[cur_voxel] = <<0, 0, 0>>) <=> (longest = 0)
            /\ dir_change_field[cur_voxel] = longest - MaxDist(dists, first - 1)
            /\ 0 <= dir_change_field[cur_voxel]
            /\ dir_change_field[cur_voxel] <= dir_length_field[cur_voxel]

C27_Witness ==
    /\ VoxelEvaluated
    /\ \E n \in DOMAIN dists : \E m \in DOMAIN dists :
          /\ n < m
          /\ dists[n].d = dists[m].d
          /\ dists[n].d = dir_length_field[cur_voxel]
          /\ dists[n].d > 0
          /\ dists[n].dir # dists[m].dir
          /\ dir_field[cur_voxel] = dists[n].dir
    /\ \E n \in DOMAIN dists :
          dists[n].d > 0 /\ dists[n].d < dir_length_field[cur_voxel]

AllVoxels == GridOf(stat_vx.shape)

C30_CounterCountsVoxels ==
    steps = Cardinality(zipped) /\ steps <= Cardinality(AllVoxels)

C30_OneStepPerVoxel ==
    /\ steps' >= steps
    /\ zipped' # zipped => steps' = steps + 1
    /\ zipped' = zipped => steps' = steps

\* C30: the step counter counts the voxels done, masked or not, one step
\* each, never decreases and never exceeds the voxel count; under fair
\* scheduling, once every voxel is done the progress thread reads the
\* total, leaves its loop and the join on it returns.
C30_ProgressThreadJoins ==
    /\ [](C30_CounterCountsVoxels)
    /\ [][C30_OneStepPerVoxel]_vars
    /\ ((spc = "zip" /\ zipped = AllVoxels) ~> (mon_pc = "finished" /\ spc = "done"))

C30_Witness ==
    /\ spc = "done"
    /\ mon_pc = "finished"
    /\ mon_last = Cardinality(AllVoxels)
    /\ steps = Cardinality(AllVoxels)
    /\ \E v \in AllVoxels : stat_im.data[v] = 0
    /\ \E v \in AllVoxels : stat_im.data[v] > 0

-----------------------------------------------------------------------------
(* compute_output_stats, second half: the separable Gaussian blur of the   *)
(* masked occupancy (stats.rs 224-344).  It reads the arguments only, not  *)
(* the directional fields, so it is explored from the state in which the   *)
(* function was called with dir_samples = 0.  An f32 of a mean buffer is   *)
(* the record [nan, v]: v counts units of 1 / MeanDen, rounded down where  *)
(* f32 rounds to nearest; a Gaussian weight counts units of 1 / GaussDen.  *)

GaussDen == 16      \* resolution of a Gaussian weight
ExpTerms == 12      \* terms of the exponential series

ExpScale == GaussDen * GaussDen * GaussDen
MeanDen == U8Max * U8Max

Val(n) == [nan |-> FALSE, v |-> n]
NaNVal == [nan |-> TRUE, v |-> 0]

\* The mask: everywhere, everywhere but the last voxel, on the slab z = 0
\* only, or nowhere.
BlurMaskPatterns == {"full", "corner", "slab", "none"}
BlurMaskValue(pattern, idx, shape) ==
    CASE pattern = "full" -> U8Max
      [] pattern = "corner" ->
            (IF idx = <<shape[1] - 1, shape[2] - 1, shape[3] - 1>> THEN 0 ELSE U8Max)
      [] pattern = "slab" -> (IF idx[1] = 0 THEN U8Max ELSE 0)
      [] pattern = "none" -> 0

\* The three passes: the axis of (k, j, i) they run along, and the buffers
\* they read and write.
PassAxis(p) == p
PassSrcInPlace(p) == IF p = 2 THEN "a" ELSE "b"

PassSrc(p) == IF p = 2 THEN "b" ELSE "a"
PassDst(p) == IF p = 2 THEN "a" ELSE "b"
AxisName(p) == <<"z", "y", "x">>[p]

\* transform(k, j, i) along one axis: with scale = dim / size and
\* centre = index + 0.5,
\*   min = ceil(centre - (kernel_size_mm / 2) * scale).min(dim - 1).max(0)
\*   max = floor(centre + (kernel_size_mm / 2) * scale).min(dim - 1).max(0)
\* raw_min and raw_max are the values before .min(dim - 1).max(0).
Window(idx, axis, kernel, shape, bb) ==
    LET dim == shape[axis]
        size == StatSize(bb)[4 - axis]
        c2 == (2 * idx[axis] + 1) * size
        lo == CeilDiv(c2 - kernel * dim, 2 * size)
        hi == FloorDiv(c2 + kernel * dim, 2 * size)
    IN  [raw_min |-> lo, raw_max |-> hi,
         min |-> MaxOf(MinOf(lo, dim - 1), 0),
         max |-> MaxOf(MinOf(hi, dim - 1), 0)]

\* exp(tnum / tden) in units of 1 / ExpScale, by its series.
RECURSIVE ExpTerm(_, _, _)
ExpTerm(n, tnum, tden) ==
    IF n = 0 THEN ExpScale
    ELSE (ExpTerm(n - 1, tnum, tden) * tnum) \div (tden * n)

RECURSIVE ExpSeries(_, _, _)
ExpSeries(n, tnum, tden) ==
    IF n = 0 THEN ExpTerm(0, tnum, tden)
    ELSE ExpSeries(n - 1, tnum, tden) + ExpTerm(n, tnum, tden)

\* gauss(x, i, s) = exp(-0.5 * ((x - i) / (s * sigma))^2), sigma being
\* kernel_size_mm / 2 and s the scale dim / size of the axis.
Gauss(x, i, axis, kernel, shape, bb) ==
    LET dim == shape[axis]
        size == StatSize(bb)[4 - axis]
        tnum == 2 * (x - i) * (x - i) * size * size
        tden == kernel * kernel * dim * dim
    IN  (GaussDen * ExpScale) \div ExpSeries(ExpTerms, tnum, tden)

\* The voxel of the line through idx along `axis` at position x.
Along(idx, axis, x) == [idx EXCEPT ![axis] = x]

\* The three accumulators of a pass body over the window lo..hi.
RECURSIVE Accumulate(_, _, _, _, _)
Accumulate(idx, axis, lo, hi, src) ==
    IF lo > hi THEN [mean |-> 0, sum |-> 0, count |-> 0, nan |-> FALSE]
    ELSE LET rest == Accumulate(idx, axis, lo, hi - 1, src)
             at == Along(idx, axis, hi)
             w == Gauss(hi, idx[axis], axis, kernel_size_mm, stat_vx.shape, stat_vx.box)
         IN  [mean |-> rest.mean + src[at].v * w,
              sum |-> rest.sum + w,
              count |-> rest.count + (IF stat_im.data[at] > 0 THEN w ELSE 0),
              nan |-> rest.nan \/ src[at].nan]

\* mean / sum
MeanOver(acc) ==
    IF acc.nan \/ acc.sum = 0 THEN NaNVal ELSE Val(acc.mean \div acc.sum)

Buf(name) == IF name = "a" THEN mean_field_a ELSE mean_field_b

\* mean_field_confidence_f.max()
CountMin(c) == CHOOSE m \in {c[v] : v \in DOMAIN c} : \A u \in DOMAIN c : m <= c[u]

CountMax(c) == CHOOSE m \in {c[v] : v \in DOMAIN c} : \A u \in DOMAIN c : c[u] <= m

\* (num / den).max(0.0).min(255.0) as u8 for num >= 0, den >= 0: 0 / 0 is
\* NaN, which max(0.0) turns into 0, and a positive num over 0 is infinite.
DivAsU8(num, den) ==
    IF den = 0 THEN (IF num > 0 THEN U8Max ELSE 0) ELSE AsU8(num, den)

\* (m * *i * 255.0).max(0.0).min(255.0) as u8
MeanAsU8(mask, val) == IF val.nan THEN 0 ELSE AsU8(mask * val.v, MeanDen)

\* stats.rs 250-262: the buffers, and the seed of A.
SeedA ==
    /\ blur_pc = "call"
    /\ mean_field_a' = [v \in AllVoxels |-> Val(stat_vx.data[v] * stat_im.data[v])]
    /\ mean_field_b' = Zeros(stat_vx.shape, Val(0))
    /\ mean_field_confidence_f' = Zeros(stat_vx.shape, 1)
    /\ blur_pass' = 1
    /\ blur_written' = {}
    /\ blur_pc' = "pass"
    /\ UNCHANGED <<pass_log, mean_field, mean_field_confidence>>
    /\ UNCHANGED <<gvars, mvars, rvars, svars, bvars>>

\* The body of a pass's par_azip! for the voxel idx (stats.rs 268-284,
\* 291-307, 314-330).
BlurVoxel(idx) ==
    /\ blur_pc = "pass"
    /\ idx \in AllVoxels \ blur_written
    /\ LET axis == PassAxis(blur_pass)
           win == Window(idx, axis, kernel_size_mm, stat_vx.shape, stat_vx.box)
           acc == Accumulate(idx, axis, win.min, win.max, Buf(PassSrc(blur_pass)))
           o == MeanOver(acc)
       IN  /\ mean_field_a' = IF PassDst(blur_pass) = "a"
                               THEN [mean_field_a EXCEPT ![idx] = o]
                               ELSE mean_field_a
           /\ mean_field_b' = IF PassDst(blur_pass) = "b"
                               THEN [mean_field_b EXCEPT ![idx] = o]
                               ELSE mean_field_b
           /\ mean_field_confidence_f' =
                  [mean_field_confidence_f EXCEPT ![idx] = @ * acc.count]
    /\ blur_written' = blur_written \cup {idx}
    /\ UNCHANGED <<blur_pc, blur_pass, pass_log, mean_field, mean_field_confidence>>
    /\ UNCHANGED <<gvars, mvars, rvars, svars, bvars>>

\* par_azip! returns when every voxel is done; the next block starts.
EndPass ==
    /\ blur_pc = "pass"
    /\ blur_written = AllVoxels
    /\ pass_log' = Append(pass_log, [axis |-> AxisName(PassAxis(blur_pass)),
                                     src |-> PassSrc(blur_pass),
                                     dst |-> PassDst(blur_pass)])
    /\ blur_written' = {}
    /\ IF blur_pass = 3
       THEN blur_pc' = "final" /\ UNCHANGED blur_pass
       ELSE blur_pass' = blur_pass + 1 /\ UNCHANGED blur_pc
    /\ UNCHANGED <<mean_field_a, mean_field_b, mean_field_confidence_f,
                   mean_field, mean_field_confidence>>
    /\ UNCHANGED <<gvars, mvars, rvars, svars, bvars>>

\* stats.rs 333-344: count_max and the two byte fields.
Finalize ==
    /\ blur_pc = "final"
    /\ LET count_max == CountMax(mean_field_confidence_f)
       IN  /\ mean_field' =
                  [v \in AllVoxels |-> MeanAsU8(stat_im.data[v], mean_field_b[v])]
           /\ mean_field_confidence' =
                  [v \in AllVoxels |->
                      DivAsU8(stat_im.data[v] * mean_field_confidence_f[v], count_max)]
    /\ blur_pc' = "done"
    /\ UNCHANGED <<blur_pass, blur_written, mean_field_a, mean_field_b,
                   mean_field_confidence_f, pass_log>>
    /\ UNCHANGED <<gvars, mvars, rvars, svars, bvars>>

InitBlur ==
    /\ IdleGcode
    /\ IdleMesh
    /\ IdleResample
    /\ IdleBag
    /\ spc = "idle"
    /\ \E bb \in StatBoxes, sh \in StatShapes, vp \in VoxelPatterns,
          mp \in BlurMaskPatterns :
          /\ stat_vx = [box |-> bb, shape |-> sh,
                        data |-> [idx \in GridOf(sh) |-> VoxelValue(vp, idx)]]
          /\ stat_im = [box |-> bb, shape |-> sh,
                        data |-> [idx \in GridOf(sh) |-> BlurMaskValue(mp, idx, sh)]]
    /\ kernel_size_mm \in KernelSizes
    /\ dir_samples = 0
    /\ StatsAtRest
    /\ blur_pc = "call"
    /\ BlurAtRest

NextBlur ==
    \/ SeedA
    \/ \E idx \in AllVoxels : BlurVoxel(idx)
    \/ EndPass
    \/ Finalize

SpecBlur == InitBlur /\ [][NextBlur]_vars

\* The window of a voxel is the one transform computed before clipping.
Unclipped(win, dim) == win.raw_min >= 0 /\ win.raw_max <= dim - 1

\* C29: in a blur pass, the window [min, max] of a written voxel with index
\* k along the pass axis, when the grid boundary does not clip it, contains k
\* and has as many indices below k as above k.
C29_WindowSymmetric ==
    blur_pc = "pass" =>
        \A idx \in blur_written :
            LET axis == PassAxis(blur_pass)
                win == Window(idx, axis, kernel_size_mm, stat_vx.shape, stat_vx.box)
                k == idx[axis]
            IN  Unclipped(win, stat_vx.shape[axis]) =>
                    /\ win.min <= k /\ k <= win.max
                    /\ k - win.min = win.max - k

\* The passes in the order the specification gives them.
ZYX == << [axis |-> "z", src |-> "a", dst |-> "b"],
          [axis |-> "y", src |-> "b", dst |-> "a"],
          [axis |-> "x", src |-> "a", dst |-> "b"] >>

\* The finished passes are a prefix of Z, Y, X between their buffers, the
\* running pass is the next one, and the returned mean is read from the
\* buffer the X pass wrote.
C22_PassOrder ==
    /\ blur_pc \in {"pass", "final", "done"} =>
          /\ Len(pass_log) <= Len(ZYX)
          /\ pass_log = SubSeq(ZYX, 1, Len(pass_log))
          /\ blur_pc = "pass" => blur_pass = Len(pass_log) + 1
          /\ blur_pc # "pass" => Len(pass_log) = Len(ZYX)
    /\ blur_pc = "done" =>
          \A v \in AllVoxels :
              LET last == Buf(pass_log[Len(pass_log)].dst)[v]
              IN  mean_field[v] =
                      IF last.nan \/ stat_im.data[v] = 0 THEN 0
                      ELSE MinOf((stat_im.data[v] * last.v) \div MeanDen, U8Max)

\* A step of a pass writes one voxel, the same one, of the destination and
\* of the confidence accumulator, and leaves the buffer the pass reads
\* alone; a pass ends only when it has written every voxel.
C22_WorkerStep ==
    /\ (blur_pc = "pass" /\ blur_pc' = "pass" /\ blur_pass' = blur_pass) =>
          LET src == ZYX[blur_pass].src
              dst == ZYX[blur_pass].dst
          IN  /\ Buf(src)' = Buf(src)
              /\ \E idx \in AllVoxels \ blur_written :
                    /\ blur_written' = blur_written \cup {idx}
                    /\ \A u \in AllVoxels \ {idx} :
                          /\ Buf(dst)'[u] = Buf(dst)[u]
                          /\ mean_field_confidence_f'[u] = mean_field_confidence_f[u]
    /\ (blur_pc = "pass" /\ (blur_pc' # "pass" \/ blur_pass' # blur_pass)) =>
          /\ blur_written = AllVoxels
          /\ blur_written' = {}
          /\ mean_field_a' = mean_field_a
          /\ mean_field_b' = mean_field_b

\* C22: the blur passes run in the order Z, Y, X; a pass starts only after
\* every voxel of the previous pass has been written; during a pass no worker
\* writes the buffer the pass reads (A to B, B to A, A to B) and each worker
\* writes only its own voxel of the destination and of the confidence
\* accumulator; the final mean is taken from the buffer the X pass wrote.
C22_PassesAreSequencedAndDisjoint ==
    /\ [](C22_PassOrder)
    /\ [][C22_WorkerStep]_vars

\* The blur has returned for a grid of several voxels, the two buffers
\* differ and some voxel has a positive mean.
C22_Witness ==
    /\ blur_pc = "done"
    /\ pass_log = ZYX
    /\ Cardinality(AllVoxels) > 1
    /\ mean_field_a # mean_field_b
    /\ \E v \in AllVoxels : mean_field[v] > 0

\* C23: the confidence byte of a voxel is its accumulated confidence over
\* the largest accumulated confidence, times its mask occupancy, cut to a
\* byte, so it lies in 0 .. 255; the mean and the confidence bytes are 0
\* wherever the mask is 0; and when every accumulated confidence is 0 the
\* confidence is 0 everywhere.
C23_ConfidenceNormalised ==
    blur_pc = "done" =>
        \E top \in AllVoxels :
            /\ \A u \in AllVoxels :
                  mean_field_confidence_f[u] <= mean_field_confidence_f[top]
            /\ \A v \in AllVoxels :
                  LET c == mean_field_confidence_f[v]
                      largest == mean_field_confidence_f[top]
                      m == stat_im.data[v]
                      byte == mean_field_confidence[v]
                  IN  /\ byte \in 0 .. U8Max
                      /\ largest > 0 =>
                            /\ byte * largest <= m * c
                            /\ m * c < (byte + 1) * largest
                      /\ largest = 0 => byte = 0
                      /\ m = 0 => (byte = 0 /\ mean_field[v] = 0)

\* The blur has returned with a voxel outside the mask, a voxel of full
\* confidence and a voxel of partial confidence.
C23_Witness ==
    /\ blur_pc = "done"
    /\ \E v \in AllVoxels : stat_im.data[v] = 0
    /\ \E v \in AllVoxels : mean_field_confidence[v] = U8Max
    /\ \E v \in AllVoxels :
          mean_field_confidence[v] > 0 /\ mean_field_confidence[v] < U8Max

=============================================================================
